---- MODULE Spec2Model ----
(***************************************************************************)
(* CHNA -> CRA dashboard (app.js): the run-scoped state object, the        *)
(* extraction / aggregation / scoring / synthesis chain and the button     *)
(* handlers that drive it.                                                 *)
(*                                                                         *)
(* Numbers.  A magnitude is a percentage parsed by parseFloat from         *)
(* \d{1,2}(\.\d+)? ; it is held here in TENTHS of a percent (2.7% is 27),  *)
(* so 0 <= magnitude <= 999.  Scores are computed in exact rational        *)
(* arithmetic and rounded as Math.round does (half up).                    *)
(*                                                                         *)
(* Text.  scanDoc reads a page only through String.includes on the         *)
(* keywords and through the two bounded-window regular expressions, so a   *)
(* page is held as what those searches return on it: the set of keys whose *)
(* keyword occurs, and per signal the captured percentage or null.         *)
(***************************************************************************)
EXTENDS Integers, Sequences, FiniteSets, TLC

VARIABLES
    docs,           \* state.docs
    evidence,       \* state.evidence
    findings,       \* state.findings
    opportunities,  \* state.opportunities
    selectedOpp,    \* state.selectedOpp
    transport,      \* state.transport
    chnaEval,       \* state.chnaEval
    model,          \* state.model
    errbar,         \* #errbar: [shown, msg]
    okbar,          \* #okbar: last message shown
    runs,           \* the btn_process handlers suspended at an await, oldest first
    last            \* the handler or function applied by the last step, with its arguments

vars == <<docs, evidence, findings, opportunities, selectedOpp, transport,
          chnaEval, model, errbar, okbar, runs, last>>

----------------------------------------------------------------------------
(* null and values that may be null *)

Null == <<>>
Some(v) == <<v>>
Val(x) == x[1]

Min2(a, b) == IF a <= b THEN a ELSE b
Max2(a, b) == IF a >= b THEN a ELSE b
MinOf(S) == CHOOSE x \in S : \A y \in S : x <= y
MaxOf(S) == CHOOSE x \in S : \A y \in S : x >= y

clamp(n, min, max) == Max2(min, Min2(max, n))

----------------------------------------------------------------------------
(* reference data *)

DISPARITIES == <<
    [key |-> "transport", label |-> "Transportation barrier"],
    [key |-> "access",    label |-> "Access to care barrier"],
    [key |-> "food",      label |-> "Food insecurity"],
    [key |-> "housing",   label |-> "Housing need"],
    [key |-> "financial", label |-> "Financial need"] >>

Keys == {DISPARITIES[i].key : i \in DOMAIN DISPARITIES}

Overall == "Overall"
Age6574 == "Age 65-74"

\* the searches scanDoc runs on a page: findPercentNear(t, "transportation"),
\* findAge6574Transport(t), findPercentNear(t, d.keywords[0]) for the other keys
Signals == {"transport", "age6574", "access", "food", "housing", "financial"}

SignalKey(s) == IF s = "age6574" THEN "transport" ELSE s

NoMatch == [s \in Signals |-> Null]

----------------------------------------------------------------------------
(* Extraction and aggregation *)

\* a variant that keeps only the newest record
recordEvidenceLatestOnly(ev, disparityLabel, snippet, doc, page) ==
    <<[disparity |-> disparityLabel, snippet |-> snippet, doc |-> doc, page |-> page]>>

recordEvidence(ev, disparityLabel, snippet, doc, page) ==
    Append(ev, [disparity |-> disparityLabel, snippet |-> snippet,
                doc |-> doc, page |-> page])

FindingId(key, segment) == <<key, segment>>

\* variants of addFinding with one line changed
addFindingAlwaysPush(fs, key, disparity, segment, magnitude, prominence, evidenceRef) ==
    Append(fs, [id |-> FindingId(key, segment), key |-> key, disparity |-> disparity,
                segment |-> segment, magnitude |-> magnitude,
                prominence |-> prominence, concentration |-> 0,
                score |-> 0, recommend |-> "", evidenceRef |-> evidenceRef])

addFindingWith(fs, key, disparity, segment, magnitude, prominence, evidenceRef,
               replace(_, _)) ==
    LET id == FindingId(key, segment)
        hit == {i \in DOMAIN fs : fs[i].id = id}
    IN  IF hit # {}
        THEN LET i == MinOf(hit)
             IN  IF replace(magnitude, fs[i].magnitude)
                 THEN [fs EXCEPT ![i].magnitude = magnitude,
                                 ![i].prominence = Max2(fs[i].prominence, prominence),
                                 ![i].evidenceRef = evidenceRef]
                 ELSE fs
        ELSE addFindingAlwaysPush(fs, key, disparity, segment, magnitude, prominence,
                                  evidenceRef)

\* ">=" for ">"
addFindingGe(fs, key, disparity, segment, magnitude, prominence, evidenceRef) ==
    LET ge(a, b) == a >= b
    IN  addFindingWith(fs, key, disparity, segment, magnitude, prominence, evidenceRef, ge)

\* the latest value replaces the stored one whatever the magnitudes
addFindingLastWins(fs, key, disparity, segment, magnitude, prominence, evidenceRef) ==
    LET any(a, b) == TRUE
    IN  addFindingWith(fs, key, disparity, segment, magnitude, prominence, evidenceRef, any)

\* "ex.prominence += prominence" on every hit of a stored identity
addFindingSumProminence(fs, key, disparity, segment, magnitude, prominence, evidenceRef) ==
    LET gt(a, b) == a > b
        hit == {i \in DOMAIN fs : fs[i].id = FindingId(key, segment)}
        r == addFindingWith(fs, key, disparity, segment, magnitude, prominence,
                            evidenceRef, gt)
    IN  IF hit = {} THEN r
        ELSE [r EXCEPT ![MinOf(hit)].prominence = fs[MinOf(hit)].prominence + prominence]

addFinding(fs, key, disparity, segment, magnitude, prominence, evidenceRef) ==
    LET id == FindingId(key, segment)
        hit == {i \in DOMAIN fs : fs[i].id = id}
    IN  IF hit # {}
        THEN LET i == MinOf(hit)
             IN  IF magnitude > fs[i].magnitude
                 THEN [fs EXCEPT ![i].magnitude = magnitude,
                                 ![i].prominence = Max2(fs[i].prominence, prominence),
                                 ![i].evidenceRef = evidenceRef]
                 ELSE fs
        ELSE Append(fs, [id |-> id, key |-> key, disparity |-> disparity,
                         segment |-> segment, magnitude |-> magnitude,
                         prominence |-> prominence, concentration |-> 0,
                         score |-> 0, recommend |-> "",
                         evidenceRef |-> evidenceRef])

\* one iteration of scanDoc's page loop; st = [findings, evidence, transport, prominence]
RECURSIVE scanOthers(_, _, _, _, _)
scanOthers(st, name, i, page, d) ==
    IF d > Len(DISPARITIES) THEN st
    ELSE LET D == DISPARITIES[d]
             p == page.pct[D.key]
         IN  IF D.key = "transport" \/ p = Null
             THEN scanOthers(st, name, i, page, d + 1)
             ELSE scanOthers(
                    [st EXCEPT
                       !.evidence = recordEvidence(st.evidence, D.label,
                                        <<D.key, Val(p)>>, name, i),
                       !.findings = addFinding(st.findings, D.key, D.label, Overall,
                                        Val(p), st.prominence[D.key], <<name, i>>)],
                    name, i, page, d + 1)

scanPage(st, name, i, page) ==
    LET prom == [k \in Keys |-> IF k \in page.kw THEN st.prominence[k] + 1
                                               ELSE st.prominence[k]]
        s0 == [st EXCEPT !.prominence = prom]
        tr == page.pct["transport"]
        s1 == IF tr = Null THEN s0
              ELSE [s0 EXCEPT
                      !.evidence = recordEvidence(s0.evidence, "Transportation barrier",
                                        <<"transport", Val(tr)>>, name, i),
                      !.findings = addFinding(s0.findings, "transport",
                                        "Transportation barrier", Overall, Val(tr),
                                        prom["transport"], <<name, i>>),
                      !.transport.overall =
                          IF s0.transport.overall = Null THEN Some(Val(tr))
                          ELSE s0.transport.overall]
        tr6574 == page.pct["age6574"]
        s2 == IF tr6574 = Null THEN s1
              ELSE [s1 EXCEPT
                      !.evidence = recordEvidence(s1.evidence, "Transportation barrier",
                                        <<"age6574", Val(tr6574)>>, name, i),
                      !.findings = addFinding(s1.findings, "transport",
                                        "Transportation barrier", Age6574, Val(tr6574),
                                        prom["transport"], <<name, i>>),
                      !.transport.age6574 = Some(Val(tr6574))]
    IN  scanOthers(s2, name, i, page, 1)

RECURSIVE scanPages(_, _, _)
scanPages(st, doc, i) ==
    IF i > Len(doc.textByPage) THEN st
    ELSE LET next == scanPage(st, doc.name, i, doc.textByPage[i])
         IN  \* evaluated page by page; a page never removes evidence
             IF Len(next.evidence) >= Len(st.evidence)
             THEN scanPages(next, doc, i + 1) ELSE next

\* scanDoc(doc) applied to s = [findings, evidence, transport]
scanDoc(s, doc) ==
    LET r == scanPages([findings |-> s.findings, evidence |-> s.evidence,
                        transport |-> s.transport,
                        prominence |-> [k \in Keys |-> 0]], doc, 1)
    IN  [findings |-> r.findings, evidence |-> r.evidence, transport |-> r.transport]

RECURSIVE scanDocs(_, _, _)
scanDocs(s, ds, i) ==
    IF i > Len(ds) THEN s ELSE scanDocs(scanDoc(s, ds[i]), ds, i + 1)

----------------------------------------------------------------------------
(* Materiality scoring *)

\* Math.round(n / d) for d > 0: floor(n/d + 1/2)
RoundDiv(n, d) == (2 * n + d) \div (2 * d)

\* Array.prototype.sort((a,b) => b.score - a.score): stable, descending by score
InsertByScore(sorted, x) ==
    LET k == Cardinality({i \in DOMAIN sorted : sorted[i].score >= x.score})
    IN  SubSeq(sorted, 1, k) \o <<x>> \o SubSeq(sorted, k + 1, Len(sorted))

RECURSIVE SortFrom(_, _, _)
SortFrom(s, i, acc) ==
    IF i > Len(s) THEN acc ELSE SortFrom(s, i + 1, InsertByScore(acc, s[i]))

\* a list left in insertion order
unsorted(s) == s

sortByScore(s) == SortFrom(s, 1, <<>>)

\* f.concentration: subgroup magnitude minus the key's Overall magnitude (tenths)
concentrationOf(fs, f) ==
    LET ov == {i \in DOMAIN fs : fs[i].key = f.key /\ fs[i].segment = Overall}
    IN  IF f.segment # Overall /\ ov # {}
        THEN Max2(0, f.magnitude - fs[MinOf(ov)].magnitude)
        ELSE 0

\* a bonus (age6574/overall - 1)*8 without the cap of 10
transportBonusUncapped(tr) ==
    IF tr.overall # Null /\ tr.age6574 # Null /\ Val(tr.overall) > 0
    THEN LET o == Val(tr.overall)
             n == 8 * (Val(tr.age6574) - o)
         IN  IF n <= 0 THEN 0 ELSE RoundDiv(n, o)
    ELSE 0

\* Math.round(transportBonus), transportBonus = clamp((age6574/overall - 1)*8, 0, 10)
transportBonus(tr) ==
    IF tr.overall # Null /\ tr.age6574 # Null /\ Val(tr.overall) > 0
    THEN LET o == Val(tr.overall)
             n == 8 * (Val(tr.age6574) - o)      \* (amp - 1) * 8 = n / o
         IN  IF n <= 0 THEN 0
             ELSE IF n >= 10 * o THEN 10
             ELSE RoundDiv(n, o)
    ELSE 0

\* Math.round(magScore + concScore + promScore), the three terms over the common
\* denominator 30 (magnitude and concentration are in tenths of a percent)
baseScore(magnitude, concentration, prominence) ==
    LET magScore30  == clamp(6 * magnitude, 0, 60 * 30)       \* (m/30)*60
        concScore30 == clamp(5 * concentration, 0, 25 * 30)   \* (c/15)*25
        promScore30 == clamp(75 * prominence, 0, 15 * 30)     \* (p/6)*15
    IN  RoundDiv(magScore30 + concScore30 + promScore30, 30)

\* the transportation bonus added without the final clamp
findingScoreNoClamp(f, bonus) ==
    LET score == baseScore(f.magnitude, f.concentration, f.prominence)
    IN  IF f.key = "transport" THEN score + bonus ELSE score

findingScore(f, bonus) ==
    LET score == baseScore(f.magnitude, f.concentration, f.prominence)
    IN  IF f.key = "transport" THEN clamp(score + bonus, 0, 100) ELSE score

recommendOf(score) ==
    IF score >= 70 THEN "Advance (high)"
    ELSE IF score >= 55 THEN "Advance (moderate)"
    ELSE "Defer/monitor"

computeMateriality(fs, tr) ==
    LET withConc == [i \in DOMAIN fs |->
                        [fs[i] EXCEPT !.concentration = concentrationOf(fs, fs[i])]]
        bonus == transportBonus(tr)
        scored == [i \in DOMAIN fs |->
                        LET sc == findingScore(withConc[i], bonus)
                        IN  [withConc[i] EXCEPT !.score = sc,
                                                !.recommend = recommendOf(sc)]]
    IN  sortByScore(scored)

----------------------------------------------------------------------------
(* Opportunity synthesis and the tier gate *)

attribution == 70
defaultResponsiveness == 55
GateScore == 60

\* Math.round(0.30*e + 0.30*r + 0.25*a + 0.15*(100-b))
scoreOpportunity(eligibilityClarity, responsiveness, attributionStrength, docBurden) ==
    RoundDiv(30 * eligibilityClarity + 30 * responsiveness
             + 25 * attributionStrength + 15 * (100 - docBurden), 100)

\* a tiering whose Moderate band starts at 55
strengthOfLenient(score) ==
    IF score >= 75 THEN "Strong" ELSE IF score >= 55 THEN "Moderate" ELSE "Weak"

strengthOf(score) ==
    IF score >= 75 THEN "Strong" ELSE IF score >= 60 THEN "Moderate" ELSE "Weak"

\* the last finding of the key in list order, or Null
lastByKey(fs, key) ==
    LET hit == {i \in DOMAIN fs : fs[i].key = key}
    IN  IF hit = {} THEN Null ELSE Some(fs[MaxOf(hit)])

\* bestByKey[key]: the first finding of the key in list order, or Null
bestByKey(fs, key) ==
    LET hit == {i \in DOMAIN fs : fs[i].key = key}
    IN  IF hit = {} THEN Null ELSE Some(fs[MinOf(hit)])

makeOpp(name, kind, eligibility, fscore, burden) ==
    LET score == scoreOpportunity(eligibility, clamp(fscore, 0, 100), attribution, burden)
    IN  [opp |-> name, kind |-> kind, strength |-> strengthOf(score), score |-> score]

\* a synthesizer that offers transportation only when a transport finding exists
nmtOppIfFound(fs) ==
    LET b == bestByKey(fs, "transport")
    IN  IF b = Null THEN <<>>
        ELSE <<makeOpp("Transportation-to-care (NEMT)", "nmt", 90, Val(b).score, 35)>>

\* a transportation opportunity that falls back to responsiveness 0
nmtOppZeroDefault(fs) ==
    LET b == bestByKey(fs, "transport")
    IN  <<makeOpp("Transportation-to-care (NEMT)", "nmt", 90,
                  IF b = Null THEN 0 ELSE Val(b).score, 35)>>

nmtOpp(fs) ==
    LET b == bestByKey(fs, "transport")
    IN  <<makeOpp("Transportation-to-care (NEMT)", "nmt", 90,
                  IF b = Null THEN defaultResponsiveness ELSE Val(b).score, 35)>>

foodOpp(fs) ==
    LET b == bestByKey(fs, "food")
    IN  IF b = Null THEN <<>>
        ELSE <<makeOpp("Food access support", "food", 80, Val(b).score, 45)>>

\* an access opportunity that a housing finding also creates
careOppFromHousing(fs) ==
    LET b == IF bestByKey(fs, "access") # Null THEN bestByKey(fs, "access")
             ELSE bestByKey(fs, "housing")
    IN  IF b = Null THEN <<>>
        ELSE <<makeOpp("Care navigation / referral infrastructure", "care", 75,
                       Val(b).score, 50)>>

careOpp(fs) ==
    LET b == bestByKey(fs, "access")
    IN  IF b = Null THEN <<>>
        ELSE <<makeOpp("Care navigation / referral infrastructure", "care", 75,
                       Val(b).score, 50)>>

\* the value buildOpportunities assigns to state.opportunities
buildOpportunities(fs) == sortByScore(nmtOpp(fs) \o foodOpp(fs) \o careOpp(fs))

\* the value buildOpportunities assigns to state.selectedOpp
topOpp(opps) == IF Len(opps) > 0 THEN Some(opps[1]) ELSE Null

\* a gate that requires every opportunity to reach the gate score
tier3UnlockedAll ==
    /\ opportunities # <<>>
    /\ \A i \in DOMAIN opportunities : opportunities[i].score >= GateScore

\* state.opportunities.some(o => o.score >= 60)
tier3Unlocked == \E i \in DOMAIN opportunities : opportunities[i].score >= GateScore

----------------------------------------------------------------------------
(* The state object *)

NoTransport == [overall |-> Null, age6574 |-> Null]

EmptyScan == [findings |-> <<>>, evidence |-> <<>>, transport |-> NoTransport]

Init ==
    /\ docs = <<>>
    /\ evidence = <<>>
    /\ findings = <<>>
    /\ opportunities = <<>>
    /\ selectedOpp = Null
    /\ transport = NoTransport
    /\ chnaEval = <<>>
    /\ model = Null
    /\ errbar = [shown |-> FALSE, msg |-> <<>>]
    /\ okbar = [shown |-> FALSE, msg |-> <<>>]
    /\ runs = <<>>
    /\ last = [op |-> "init"]

----------------------------------------------------------------------------
(* Inputs: pages and documents *)

\* a page as the searches see it: kw, the keys whose keyword it includes; pct, per
\* signal the percentage captured; els, the checklist elements and document-kind
\* phrases (evalDocForElements) of which it includes a pattern
PageWith(kw, pct, els) == [kw |-> kw, pct |-> pct, els |-> els]

Page(kw, pct) == PageWith(kw, pct, {})

\* a page on which exactly the searches in m (signal -> tenths of a percent) match
PageOf(m) ==
    Page({SignalKey(s) : s \in DOMAIN m},
         [s \in Signals |-> IF s \in DOMAIN m THEN Some(m[s]) ELSE Null])

\* a page that only mentions a keyword of the keys in kw, with no percentage near it
MentionOf(kw) == Page(kw, NoMatch)

Doc(name, type, pages) ==
    [name |-> name, type |-> type, pages |-> Len(pages), textByPage |-> pages]

\* the demo page of btn_demo: transportation 2.7%, 65-74 8.5%; the first percentage
\* after "food insecurity" is the 6% of "food insecurity and 6% reported housing
\* needs" (the 7.5% stands before the keyword), and no percentage follows "housing
\* needs", so "housing" is a keyword hit only
DemoPage ==
    Page({"transport", "food", "housing"},
         [s \in Signals |-> CASE s = "transport" -> Some(27)
                              [] s = "age6574"   -> Some(85)
                              [] s = "food"      -> Some(60)
                              [] OTHER           -> Null])

DemoDoc == Doc("Demo_CHNA.pdf", "pdf", <<DemoPage>>)

----------------------------------------------------------------------------
(* Message bars *)

showErr(msg) == [shown |-> TRUE, msg |-> msg]
clearErr == [shown |-> FALSE, msg |-> <<>>]
showOk(msg) == [shown |-> TRUE, msg |-> msg]

MsgNoFiles == <<"No files selected.">>
MsgNoneParsed == <<"No supported files were parsed.">>
MsgNoSignals == <<"Documents were parsed, but no recognizable CHNA signals were detected.">>
MsgParse(name) == <<"Error parsing", name>>

----------------------------------------------------------------------------
(* Documentation gap evaluation, per document *)

CHNA_ELEMENTS ==
    <<"community_def", "methods", "input", "underserved", "priorities", "resources",
      "impact_eval">>
IS_ELEMENTS == <<"is_actions", "is_resources_impact", "is_collab">>
WRITTEN_COMMENT_ELEMENTS == <<"wc_solicit", "wc_received", "wc_used">>

\* the phrases behind isCHNA, isIS and publicHit
KindPhrases == {"chna", "implementation", "public"}

\* the patterns found in the joined text of the document
foundIn(doc) == UNION {doc.textByPage[i].els : i \in DOMAIN doc.textByPage}

\* scoreBlock(block): hits, presentCount, total and the rounded percentage
scoreBlock(block, found) ==
    LET hits == [i \in DOMAIN block |-> [id |-> block[i], present |-> block[i] \in found]]
        presentCount == Cardinality({i \in DOMAIN hits : hits[i].present})
    IN  [score |-> RoundDiv(presentCount * 100, Len(hits)),
         hits |-> hits, presentCount |-> presentCount, total |-> Len(hits)]

\* a written-comments score that truncates the percentage
wcScoreTruncated(presentCount) == (presentCount * 100) \div 3

\* wc.presentCount===3 ? 100 : (wc.presentCount===2 ? 67 : (wc.presentCount===1 ? 33 : 0))
wcScore(presentCount) ==
    IF presentCount = 3 THEN 100
    ELSE IF presentCount = 2 THEN 67
    ELSE IF presentCount = 1 THEN 33 ELSE 0

evalDocForElements(doc) ==
    LET found == foundIn(doc)
        chna == scoreBlock(CHNA_ELEMENTS, found)
        isb == scoreBlock(IS_ELEMENTS, found)
        wc == scoreBlock(WRITTEN_COMMENT_ELEMENTS, found)
    IN  [doc |-> doc.name,
         isCHNA |-> "chna" \in found,
         isIS |-> "implementation" \in found,
         chnaScore |-> chna.score,
         isScore |-> isb.score,
         writtenCommentsScore |-> wcScore(wc.presentCount),
         publicScore |-> IF "public" \in found THEN 100 ELSE 0,
         chnaHits |-> chna.hits,
         isHits |-> isb.hits,
         wcHits |-> wc.hits]

mapEval(ds) == [i \in DOMAIN ds |-> evalDocForElements(ds[i])]

----------------------------------------------------------------------------
(* Specification Spec: the button handlers                                 *)

MaxRuns == 1

\* a file of the file input: content is what extractPdfText / extractTxt return
\* for it, or Null when the extraction throws
File(name, ext, content) == [name |-> name, ext |-> ext, content |-> content]

WeakTxt == File("b.txt", "txt", Some(<<PageOf([transport |-> 27]), PageOf([access |-> 300])>>))
SilentTxt == File("c.txt", "txt", Some(<<MentionOf({})>>))
BadPdf == File("bad.pdf", "pdf", Null)
BadTxt == File("bad.txt", "txt", Null)
Docx == File("d.docx", "docx", Some(<<>>))

\* what the user may have selected in the file input when clicking Process
FileSelections == {
    <<>>,
    <<Docx>>,
    <<BadPdf>>,
    <<WeakTxt>>,
    <<SilentTxt, BadPdf>>,
    <<BadPdf, Docx, WeakTxt>>,
    <<BadPdf, BadTxt>> }

Supported(f) == f.ext \in {"pdf", "txt"}

\* the next file of the loop at or after i whose extraction is awaited (files of
\* another kind are skipped by "continue"), or 0 when the loop ends
nextAwait(files, i) ==
    LET S == {j \in i..Len(files) : Supported(files[j])}
    IN  IF S = {} THEN 0 ELSE MinOf(S)

RemoveAt(q, k) == SubSeq(q, 1, k - 1) \o SubSeq(q, k + 1, Len(q))

\* state.docs=[]; state.evidence=[]; ... state.transport={overall:null, age6574:null}
ClearRunState ==
    /\ docs' = <<>>
    /\ evidence' = <<>>
    /\ findings' = <<>>
    /\ opportunities' = <<>>
    /\ selectedOpp' = Null
    /\ chnaEval' = <<>>
    /\ transport' = NoTransport

\* btn_reset click
Reset ==
    /\ ClearRunState
    /\ errbar' = clearErr
    /\ okbar' = showOk(<<"Reset complete.">>)
    /\ last' = [op |-> "reset", wasUnlocked |-> tier3Unlocked]
    /\ UNCHANGED <<model, runs>>

\* scanDoc over ds, computeMateriality, buildOpportunities and the selection:
\* the synchronous tail shared by btn_demo and btn_process
Pipeline(ds, s) ==
    LET r == scanDocs(s, ds, 1)
        fs == computeMateriality(r.findings, r.transport)
        opps == buildOpportunities(fs)
    IN  /\ docs' = ds
        /\ evidence' = r.evidence
        /\ transport' = r.transport
        /\ chnaEval' = mapEval(ds)
        /\ findings' = fs
        /\ opportunities' = opps
        /\ selectedOpp' = topOpp(opps)

\* btn_demo click
Demo ==
    /\ Pipeline(<<DemoDoc>>, EmptyScan)
    /\ errbar' = clearErr
    /\ okbar' = showOk(<<"Demo loaded (transportation differential).">>)
    /\ last' = [op |-> "demo"]
    /\ UNCHANGED <<model, runs>>

\* a run end that leaves the error bar as the file loop left it
noSignalsUnreported(ev, err) == err

\* if(state.evidence.length===0) showErr("Documents were parsed, but no ...")
noSignalsCheck(ev, err) == IF ev = <<>> THEN showErr(MsgNoSignals) ELSE err

\* btn_process click, up to its first await (or to its end when nothing is awaited)
ProcessClick ==
    \E files \in FileSelections :
        /\ Len(runs) < MaxRuns
        /\ okbar' = showOk(<<"Processing">>)
        /\ IF files = <<>>
           THEN /\ errbar' = showErr(MsgNoFiles)
                /\ last' = [op |-> "process", phase |-> "click", outcome |-> "nofiles"]
                /\ UNCHANGED <<docs, evidence, findings, opportunities, selectedOpp,
                               transport, chnaEval, runs>>
           ELSE /\ ClearRunState
                /\ IF nextAwait(files, 1) # 0
                   THEN /\ errbar' = clearErr
                        /\ runs' = Append(runs, [files |-> files,
                                                 i |-> nextAwait(files, 1)])
                        /\ last' = [op |-> "process", phase |-> "click",
                                    outcome |-> "await"]
                   ELSE /\ errbar' = showErr(MsgNoneParsed)
                        /\ runs' = runs
                        /\ last' = [op |-> "process", phase |-> "click",
                                    outcome |-> "nodocs", files |-> files]
        /\ UNCHANGED model

\* btn_process, from the completion of an awaited extraction to the next await or
\* to the end of the handler
ProcessResume ==
    \E k \in DOMAIN runs :
        LET r == runs[k]
            f == r.files[r.i]
            ok == f.content # Null
            docs1 == IF ok THEN Append(docs, Doc(f.name, f.ext, Val(f.content)))
                     ELSE docs
            err1 == IF ok THEN errbar ELSE showErr(MsgParse(f.name))
            j == nextAwait(r.files, r.i + 1)
        IN  IF j # 0
            THEN /\ docs' = docs1
                 /\ errbar' = err1
                 /\ runs' = [runs EXCEPT ![k].i = j]
                 /\ last' = [op |-> "process", phase |-> "resume", outcome |-> "await"]
                 /\ UNCHANGED <<evidence, findings, opportunities, selectedOpp,
                                transport, chnaEval, model, okbar>>
            ELSE /\ runs' = RemoveAt(runs, k)
                 /\ IF docs1 = <<>>
                    THEN /\ docs' = docs1
                         /\ errbar' = showErr(MsgNoneParsed)
                         /\ last' = [op |-> "process", phase |-> "resume",
                                     outcome |-> "nodocs", files |-> r.files]
                         /\ UNCHANGED <<evidence, findings, opportunities, selectedOpp,
                                        transport, chnaEval, okbar>>
                    ELSE /\ Pipeline(docs1, [findings |-> findings,
                                             evidence |-> evidence,
                                             transport |-> transport])
                         /\ okbar' = showOk(<<"Processed", Len(docs1), Len(evidence')>>)
                         /\ errbar' = noSignalsCheck(evidence', err1)
                         /\ last' = [op |-> "process", phase |-> "resume",
                                     outcome |-> "done", files |-> r.files]
                 /\ UNCHANGED model

\* btn_use_top click (setTier3FromOpportunity writes the #a_share input only)
UseTop ==
    /\ IF opportunities = <<>>
       THEN /\ errbar' = showErr(<<"No Tier 2 opportunities available yet.">>)
            /\ UNCHANGED <<selectedOpp, okbar>>
       ELSE /\ selectedOpp' = Some(opportunities[1])
            /\ okbar' = showOk(<<"Tier 3 prefilled using top Tier 2 opportunity.">>)
            /\ UNCHANGED errbar
    /\ last' = [op |-> "use_top"]
    /\ UNCHANGED <<docs, evidence, findings, opportunities, transport, chnaEval,
                   model, runs>>

\* btn_autofill click
Autofill ==
    /\ selectedOpp' = IF selectedOpp = Null THEN topOpp(opportunities) ELSE selectedOpp
    /\ okbar' = showOk(<<"Tier 3 auto-fill applied from Tier 2.">>)
    /\ last' = [op |-> "autofill"]
    /\ UNCHANGED <<docs, evidence, findings, opportunities, transport, chnaEval,
                   model, errbar, runs>>

\* runTier3's amp_factor: (overall && age6574) ? age6574/overall : null, as the
\* pair <<age6574, overall>> (0 is falsy)
ampFactorField ==
    IF /\ transport.overall # Null
       /\ transport.age6574 # Null
       /\ Val(transport.overall) # 0
       /\ Val(transport.age6574) # 0
    THEN Some(<<Val(transport.age6574), Val(transport.overall)>>)
    ELSE Null

\* btn_run click: runTier3
RunTier3 ==
    \E weightMode \in {"weighted", "flat"} :
        /\ model' = Some([weight_mode |-> weightMode, amp_factor |-> ampFactorField])
        /\ last' = [op |-> "runTier3"]
        /\ UNCHANGED <<docs, evidence, findings, opportunities, selectedOpp, transport,
                       chnaEval, errbar, okbar, runs>>

\* change / input on an ROI field: render_roi
RenderRoi ==
    /\ model' = Some([roi_parity |-> TRUE])
    /\ last' = [op |-> "render_roi"]
    /\ UNCHANGED <<docs, evidence, findings, opportunities, selectedOpp, transport,
                   chnaEval, errbar, okbar, runs>>

Next ==
    \/ Reset
    \/ Demo
    \/ ProcessClick
    \/ ProcessResume
    \/ UseTop
    \/ Autofill
    \/ RunTier3
    \/ RenderRoi

Spec == Init /\ [][Next]_vars

----------------------------------------------------------------------------
(* Specification SpecAdd: the aggregator alone, addFinding called with any  *)
(* arguments                                                               *)

MaxProm == 2

AddIds == {<<"transport", Age6574>>, <<"food", Overall>>}
AddMags == {27, 85, 300}
AddRefs == {<<"a.pdf", 1>>, <<"b.txt", 2>>}

LabelOf(key) == (CHOOSE i \in DOMAIN DISPARITIES : DISPARITIES[i].key = key) 

AddFindingStep ==
    \E id \in AddIds, magnitude \in AddMags, prominence \in 1..MaxProm, ref \in AddRefs :
        /\ findings' = addFinding(findings, id[1], DISPARITIES[LabelOf(id[1])].label,
                                  id[2], magnitude, prominence, ref)
        /\ last' = [op |-> "addFinding", id |-> FindingId(id[1], id[2]),
                    magnitude |-> magnitude, prominence |-> prominence,
                    evidenceRef |-> ref,
                    existed |-> \E i \in DOMAIN findings :
                                    findings[i].id = FindingId(id[1], id[2])]
        /\ UNCHANGED <<docs, evidence, opportunities, selectedOpp, transport,
                       chnaEval, model, errbar, okbar, runs>>

SpecAdd == Init /\ [][AddFindingStep]_vars

----------------------------------------------------------------------------
(* Specification SpecScan: scanDoc over any sequence of documents, then    *)
(* computeMateriality                                                      *)

MaxDocs == 2

ScanPages == {
    DemoPage,
    PageOf([transport |-> 85, age6574 |-> 27]),
    PageOf([transport |-> 300, food |-> 999, access |-> 60]),
    MentionOf({"transport", "food"}) }

ScanDocLib ==
    {Doc("a.pdf", "pdf", <<p, q>>) : p, q \in ScanPages}
    \cup {Doc("b.txt", "txt", <<p>>) : p \in ScanPages}
    \cup {Doc("c.txt", "txt", <<DemoPage>>)}

sameText(d, e) == d.textByPage = e.textByPage

ScanStep ==
    \E doc \in ScanDocLib :
        /\ Len(docs) < MaxDocs
        /\ last.op # "computeMateriality"
        /\ LET r == scanDoc([findings |-> findings, evidence |-> evidence,
                             transport |-> transport], doc)
           IN  /\ findings' = r.findings
               /\ evidence' = r.evidence
               /\ transport' = r.transport
        /\ docs' = Append(docs, doc)
        /\ last' = [op |-> "scanDoc", doc |-> doc.name,
                    rescan |-> \E i \in DOMAIN docs : sameText(docs[i], doc)]
        /\ UNCHANGED <<opportunities, selectedOpp, chnaEval, model, errbar, okbar, runs>>

ScoreStep ==
    /\ last.op # "computeMateriality"
    /\ findings' = computeMateriality(findings, transport)
    /\ last' = [op |-> "computeMateriality"]
    /\ UNCHANGED <<docs, evidence, opportunities, selectedOpp, transport,
                   chnaEval, model, errbar, okbar, runs>>

SpecScan == Init /\ [][ScanStep \/ ScoreStep]_vars

----------------------------------------------------------------------------
(* Specification SpecScore: computeMateriality applied to the findings and *)
(* transportation scalars a scan can leave behind                          *)

ScoreMaxProm == 7

ScoreMags == {0, 27, 60, 85, 999}
FoodMags == {75, 999}

\* a finding of the identity as scanDoc leaves it: magnitude m, prominence p >= 1
ScanOutcomes(mags, proms) ==
    {Null} \cup {Some([m |-> m, p |-> p]) : m \in mags, p \in proms}

\* a scalar of state.transport next to its finding: some matched value, at most the
\* maximum the finding kept
ScalarsFor(f) ==
    IF f = Null THEN {Null} ELSE {Some(v) : v \in {w \in ScoreMags : w <= Val(f).m}}

withOutcome(fs, key, segment, f) ==
    IF f = Null THEN fs
    ELSE addFinding(fs, key, DISPARITIES[LabelOf(key)].label, segment,
                    Val(f).m, Val(f).p, <<"a.pdf", 1>>)

InitScore ==
    \E o \in ScanOutcomes(ScoreMags, 1..ScoreMaxProm),
       a \in ScanOutcomes(ScoreMags, 1..ScoreMaxProm),
       fd \in ScanOutcomes(FoodMags, {1, ScoreMaxProm}) :
        /\ (a # Null => o # Null)
        /\ \E so \in ScalarsFor(o), sa \in ScalarsFor(a) :
              transport = [overall |-> so, age6574 |-> sa]
        /\ findings = withOutcome(withOutcome(withOutcome(<<>>,
                          "transport", Overall, o), "transport", Age6574, a),
                          "food", Overall, fd)
        /\ docs = <<>>
        /\ evidence = <<>>
        /\ opportunities = <<>>
        /\ selectedOpp = Null
        /\ chnaEval = <<>>
        /\ model = Null
        /\ errbar = [shown |-> FALSE, msg |-> <<>>]
        /\ okbar = [shown |-> FALSE, msg |-> <<>>]
        /\ runs = <<>>
        /\ last = [op |-> "init"]

SpecScore == InitScore /\ [][ScoreStep]_vars

----------------------------------------------------------------------------
(* Claims on the aggregator and the scorer *)

\* C1: after computeMateriality every finding has a score in 0..100 and a
\* concentration >= 0
C1_ScoreInRange ==
    last.op = "computeMateriality" =>
        \A i \in DOMAIN findings :
            /\ findings[i].score \in 0..100
            /\ findings[i].concentration >= 0

\* a scored transportation finding whose components and bonus add up to more than 100
C1_Witness ==
    /\ last.op = "computeMateriality"
    /\ \E i \in DOMAIN findings :
          /\ findings[i].key = "transport"
          /\ findings[i].concentration > 0
          /\ baseScore(findings[i].magnitude, findings[i].concentration,
                       findings[i].prominence) + transportBonus(transport) > 100
          /\ findings[i].score = 100

\* C2: no two findings of state.findings have the same id
C2_UniqueIds ==
    \A i, j \in DOMAIN findings : findings[i].id = findings[j].id => i = j

\* addFinding was called on an identity that was already stored, beside another one
C2_Witness ==
    /\ last.op = "addFinding"
    /\ last.existed
    /\ Len(findings) >= 2

IndexOfId(fs, id) == MinOf({i \in DOMAIN fs : fs[i].id = id})

\* C3: addFinding on a stored identity replaces magnitude and evidenceRef (and
\* raises prominence to the larger value) when the incoming magnitude is strictly
\* greater, and otherwise leaves state.findings unchanged
C3_ReplaceOnlyIfGreater ==
    [][ (last'.op = "addFinding" /\ last'.existed) =>
            LET i == IndexOfId(findings, last'.id)
                ex == findings[i]
            IN  IF last'.magnitude > ex.magnitude
                THEN findings' = [findings EXCEPT
                        ![i] = [ex EXCEPT
                                  !.magnitude = last'.magnitude,
                                  !.prominence = Max2(ex.prominence, last'.prominence),
                                  !.evidenceRef = last'.evidenceRef]]
                ELSE findings' = findings ]_vars

\* a call with the stored magnitude and another evidence reference: the stored
\* (earlier) reference is the one kept
C3_Witness ==
    /\ last.op = "addFinding"
    /\ last.existed
    /\ LET f == findings[IndexOfId(findings, last.id)]
       IN  /\ f.magnitude = last.magnitude
           /\ f.evidenceRef # last.evidenceRef

\* the values the search of signal s captured on the pages of the documents ds
Observed(ds, s) ==
    {Val(ds[i].textByPage[j].pct[s]) :
        <<i, j>> \in {x \in UNION {{i} \X DOMAIN ds[i].textByPage : i \in DOMAIN ds} :
                        ds[x[1]].textByPage[x[2]].pct[s] # Null}}

IdOfSignal(s) ==
    IF s = "age6574" THEN FindingId("transport", Age6574) ELSE FindingId(s, Overall)

MagnitudesOf(fs) == {<<fs[i].id, fs[i].magnitude>> : i \in DOMAIN fs}

Reverse(q) == [i \in 1..Len(q) |-> q[Len(q) + 1 - i]]

\* C4: every finding's magnitude is the maximum captured for its identity over all
\* pages of all scanned documents, and is the same for every order of the documents
\* and of their pages
C4_MaxAggregation ==
    /\ \A s \in Signals :
          LET obs == Observed(docs, s)
              hit == {i \in DOMAIN findings : findings[i].id = IdOfSignal(s)}
          IN  IF obs = {} THEN hit = {}
              ELSE \E i \in hit : findings[i].magnitude = MaxOf(obs)
    /\ \A p \in Permutations(DOMAIN docs) :
          LET ds == [i \in DOMAIN docs |-> docs[p[i]]]
              rs == [i \in DOMAIN docs |->
                        [docs[p[i]] EXCEPT !.textByPage = Reverse(@)]]
          IN  /\ MagnitudesOf(scanDocs(EmptyScan, ds, 1).findings)
                    = MagnitudesOf(findings)
              /\ MagnitudesOf(scanDocs(EmptyScan, rs, 1).findings)
                    = MagnitudesOf(findings)

\* two documents were scanned, the first holding the larger value of an identity
C4_Witness ==
    /\ Len(docs) = 2
    /\ \E s \in Signals :
          /\ Observed(<<docs[1]>>, s) # {}
          /\ Observed(<<docs[2]>>, s) # {}
          /\ MaxOf(Observed(<<docs[1]>>, s)) > MaxOf(Observed(<<docs[2]>>, s))

\* C5: scanning a document whose pages were already scanned in the run leaves
\* state.findings as it was: no magnitude decreases, no finding is added, no
\* prominence grows
C5_RescanIdempotent ==
    [][ (last'.op = "scanDoc" /\ last'.rescan) => findings' = findings ]_vars

\* a document with a stored finding was scanned a second time
C5_Witness ==
    /\ last.op = "scanDoc"
    /\ last.rescan
    /\ Len(docs) = 2
    /\ findings # <<>>
    /\ \E i \in DOMAIN findings : findings[i].prominence >= 2

----------------------------------------------------------------------------
(* C6..C10: synthesis, the tier gate, resets and failed extractions         *)

Synthesized ==
    \/ last.op = "demo"
    \/ last.op = "process" /\ last.outcome = "done"

\* C6: after every execution of buildOpportunities (the tail of Load Demo and of
\* a Process Files run that parsed a document) state.opportunities is not empty
\* and holds an opportunity of kind "nmt", also when state.findings is empty.
C6_TransportAlwaysOffered ==
    Synthesized =>
        /\ opportunities # <<>>
        /\ \E i \in DOMAIN opportunities : opportunities[i].kind = "nmt"

C6_Witness ==
    /\ last.op = "process"
    /\ last.outcome = "done"
    /\ findings = <<>>
    /\ \E i \in DOMAIN opportunities : opportunities[i].kind = "nmt"

\* C7: in every state tier3Unlocked() is true exactly when some opportunity of
\* state.opportunities scores 60 or more (so it is true in the very state a
\* synthesis leaves such an opportunity in), and it is false in the initial
\* state and in the state a reset leaves, whatever it was before the reset.
C7_GateFollowsOpportunities ==
    /\ tier3Unlocked <=> Cardinality({i \in DOMAIN opportunities :
                                          opportunities[i].score >= 60}) > 0
    /\ (Synthesized /\ \E i \in DOMAIN opportunities : opportunities[i].score >= 60)
           => tier3Unlocked
    /\ last.op \in {"init", "reset"} => ~tier3Unlocked

C7_Witness ==
    /\ last.op = "reset"
    /\ last.wasUnlocked
    /\ ~tier3Unlocked

\* C8: runTier3 and render_roi store a scenario in state.model only in states
\* where the tier gate is unlocked: a state one of them has just left satisfies
\* tier3Unlocked().
C8_ProjectionGated ==
    last.op \in {"runTier3", "render_roi"} => tier3Unlocked

\* C9: the state a reset leaves, and the state Process Files leaves when it starts
\* a run on a non-empty selection, has every run-scoped field at its initial
\* value: docs, evidence, findings, opportunities, selectedOpp, transport,
\* chnaEval and the scenario cache state.model.
C9_RunStateCleared ==
    (\/ last.op = "reset"
     \/ last.op = "process" /\ last.phase = "click" /\ last.outcome # "nofiles")
    => /\ docs = <<>>
       /\ evidence = <<>>
       /\ findings = <<>>
       /\ opportunities = <<>>
       /\ selectedOpp = Null
       /\ transport = NoTransport
       /\ chnaEval = <<>>
       /\ model = Null

FailedFiles(files) ==
    {files[i].name : i \in {j \in DOMAIN files :
                               Supported(files[j]) /\ files[j].content = Null}}

\* C10: when a Process Files run that parsed at least one document ends, the
\* successful documents have been scanned, scored and synthesized, and if an
\* extraction failed in the run the error bar carries the parse warning of a
\* failed file.
C10_FailedFilesSurfaced ==
    (last.op = "process" /\ last.outcome = "done")
    => /\ opportunities # <<>>
       /\ chnaEval # <<>>
       /\ FailedFiles(last.files) # {}
              => \E n \in FailedFiles(last.files) :
                     errbar = showErr(MsgParse(n))

----------------------------------------------------------------------------
(* C11..C13: the run as a unit, the no-signals outcome, the selection       *)

\* the names of the files of a selection whose extraction succeeds, in order
ParsedNames(files) ==
    LET keep(i) == Supported(files[i]) /\ files[i].content # Null
        F[i \in 0..Len(files)] ==
            IF i = 0 THEN <<>>
            ELSE IF keep(i) THEN Append(F[i - 1], files[i].name) ELSE F[i - 1]
    IN  F[Len(files)]

NamesOf(ds) == [i \in DOMAIN ds |-> ds[i].name]

\* C11: when a Process Files run completes, state.docs holds exactly the files
\* that run extracted successfully, in order, and state.findings, state.evidence
\* and state.transport are what scanning those documents alone produces: no
\* handler running during the run's awaits has left anything in the run state.
C11_RunIsAtomic ==
    (last.op = "process" /\ last.outcome = "done")
    => /\ NamesOf(docs) = ParsedNames(last.files)
       /\ LET r == scanDocs(EmptyScan, docs, 1)
          IN  /\ evidence = r.evidence
              /\ transport = r.transport
              /\ findings = computeMateriality(r.findings, r.transport)

\* C12: a Process Files run that parsed a document and extracted no evidence
\* ends by putting the no-signals message in the error bar and "0 evidence hits"
\* in the ok bar, having still scored and synthesized (chnaEval and opportunities
\* are filled); a run that ends with evidence reports its hit count and does not
\* raise that message; the message differs from both extraction-failure messages.
C12_NoSignalsDistinguished ==
    [][(last'.op = "process" /\ last'.outcome = "done")
       => /\ evidence' = <<>>
                => /\ errbar' = showErr(MsgNoSignals)
                   /\ okbar' = showOk(<<"Processed", Len(docs'), 0>>)
                   /\ findings' = <<>>
                   /\ Len(chnaEval') = Len(docs')
                   /\ opportunities' # <<>>
                   /\ selectedOpp' = Some(opportunities'[1])
          /\ evidence' # <<>>
                => /\ okbar' = showOk(<<"Processed", Len(docs'), Len(evidence')>>)
                   /\ errbar' # showErr(MsgNoSignals) \/ errbar' = errbar
          /\ MsgNoSignals # MsgNoneParsed
          /\ \A i \in DOMAIN last'.files :
                 MsgNoSignals # MsgParse(last'.files[i].name)]_vars

C12_Witness ==
    /\ last.op = "process"
    /\ last.outcome = "done"
    /\ docs # <<>>
    /\ evidence = <<>>
    /\ errbar = showErr(MsgNoSignals)

\* C13: in every state state.opportunities is in descending order of score and
\* state.selectedOpp is null exactly when there are no opportunities, else an
\* element of the list; right after a synthesis it is the element at index 0.
C13_SortedAndSelected ==
    /\ \A i, j \in DOMAIN opportunities :
           i < j => opportunities[i].score >= opportunities[j].score
    /\ (selectedOpp = Null) <=> (opportunities = <<>>)
    /\ selectedOpp # Null
           => \E i \in DOMAIN opportunities : opportunities[i] = Val(selectedOpp)
    /\ Synthesized => selectedOpp = Some(opportunities[1])

C13_Witness ==
    /\ last.op = "process"
    /\ last.outcome = "done"
    /\ Len(opportunities) >= 2
    /\ opportunities[1].kind = "care"
    /\ opportunities[1].score > opportunities[2].score
    /\ selectedOpp = Some(opportunities[1])

----------------------------------------------------------------------------
(* JavaScript numbers of the projection chain: exact rationals n/d (d > 0,  *)
(* lowest terms) and the non-finite values NaN, Infinity, -Infinity.        *)
(* Rounding of the binary representation is not modelled.                  *)

Abs(x) == IF x < 0 THEN -x ELSE x

RECURSIVE Gcd(_, _)
Gcd(a, b) == IF b = 0 THEN a ELSE Gcd(b, a % b)

NaN == [t |-> "nan", n |-> 0, d |-> 1]
Infinity(sign) == [t |-> "inf", n |-> sign, d |-> 1]

\* the number n/d, d # 0
Num(n, d) ==
    LET sn == IF d < 0 THEN -n ELSE n
        sd == Abs(d)
        g == Gcd(Abs(sn), sd)
    IN  [t |-> "num", n |-> sn \div g, d |-> sd \div g]

Whole(n) == Num(n, 1)

isNaN(x) == x.t = "nan"
isFinite(x) == x.t = "num"
SignOf(x) == IF x.n < 0 THEN -1 ELSE IF x.n > 0 THEN 1 ELSE 0

\* x * y
Mul(x, y) ==
    IF isNaN(x) \/ isNaN(y) THEN NaN
    ELSE IF isFinite(x) /\ isFinite(y) THEN Num(x.n * y.n, x.d * y.d)
    ELSE IF SignOf(x) * SignOf(y) = 0 THEN NaN
    ELSE Infinity(SignOf(x) * SignOf(y))

\* x + y
Add(x, y) ==
    IF isNaN(x) \/ isNaN(y) THEN NaN
    ELSE IF isFinite(x) /\ isFinite(y) THEN Num(x.n * y.d + y.n * x.d, x.d * y.d)
    ELSE IF isFinite(x) THEN y
    ELSE IF isFinite(y) THEN x
    ELSE IF x.n = y.n THEN x ELSE NaN

Neg(x) == IF isNaN(x) THEN NaN ELSE [x EXCEPT !.n = -x.n]

\* x - y
Sub(x, y) == Add(x, Neg(y))

\* x / y (a zero divisor is +0)
Div(x, y) ==
    IF isNaN(x) \/ isNaN(y) THEN NaN
    ELSE IF ~isFinite(y) THEN (IF isFinite(x) THEN Whole(0) ELSE NaN)
    ELSE IF ~isFinite(x) THEN Infinity(IF y.n < 0 THEN -x.n ELSE x.n)
    ELSE IF y.n = 0 THEN (IF x.n = 0 THEN NaN ELSE Infinity(SignOf(x)))
    ELSE Num(x.n * y.d, x.d * y.n)

\* x > y, false when either is NaN
Gt(x, y) ==
    /\ ~isNaN(x)
    /\ ~isNaN(y)
    /\ IF isFinite(x) /\ isFinite(y) THEN x.n * y.d > y.n * x.d
       ELSE IF isFinite(x) THEN y.n < 0
       ELSE IF isFinite(y) THEN x.n > 0
       ELSE x.n > y.n

\* Math.max / Math.min: NaN when either argument is NaN
MathMax(x, y) == IF isNaN(x) \/ isNaN(y) THEN NaN ELSE IF Gt(y, x) THEN y ELSE x
MathMin(x, y) == IF isNaN(x) \/ isNaN(y) THEN NaN ELSE IF Gt(x, y) THEN y ELSE x

\* clamp(n, min, max) on numbers
clampNum(n, min, max) == MathMax(min, MathMin(max, n))

\* the value attribute of an input element: empty, text that is not a number, or
\* the decimal text of a number
Empty == [text |-> "empty", v |-> NaN]
Junk == [text |-> "junk", v |-> NaN]
Typed(n, d) == [text |-> "num", v |-> Num(n, d)]

\* parseFloat(el.value || dflt), parseInt(el.value || dflt, 10) on whole numbers
parseOr(field, dflt) == IF field.text = "empty" THEN dflt ELSE field.v

\* parseFloat(el.value) || 0
parseOrZero(field) == IF isNaN(field.v) THEN Whole(0) ELSE field.v

\* state.transport scalars (tenths of a percent) as numbers
scalarNum(x) == IF x = Null THEN NaN ELSE Num(Val(x), 10)

\* totalCostH*(12/months)
annualize(totalCostH, months) == Mul(totalCostH, Div(Whole(12), months))

\* runTier3's chain from the form fields to the record kept in state.model
runTier3(inp, tr) ==
    LET months == parseOr(inp.months, Whole(12))
        annual == parseOr(inp.annual, Whole(0))
        baseRate == Div(parseOr(inp.base, Whole(0)), Whole(100))
        share == Div(parseOr(inp.share, Whole(0)), Whole(100))
        red == Div(parseOr(inp.red, Whole(0)), Whole(100))
        covPct == parseOr(inp.cov, Whole(25))
        senSharePct == clampNum(parseOr(inp.sen_share, Whole(25)), Whole(0), Whole(100))
        benefitPer == parseOr(inp.benefit, Whole(0))
        startup == parseOr(inp.startup, Whole(0))
        fixed == parseOr(inp.fixed, Whole(0))
        varCost == parseOr(inp.var, Whole(0))
        unitsPer == parseOr(inp.units, Whole(1))
        eligibleTouchpoints == Mul(annual, Div(covPct, Whole(100)))
        amp0 == IF /\ tr.overall # Null
                   /\ tr.age6574 # Null
                   /\ Val(tr.overall) > 0
                THEN Div(scalarNum(tr.age6574), scalarNum(tr.overall))
                ELSE Whole(1)
        ampFactor == IF inp.weight_mode = "flat" THEN Whole(1) ELSE amp0
        senShare == Div(senSharePct, Whole(100))
        effBarrierShare ==
            clampNum(Mul(share, Add(Sub(Whole(1), senShare), Mul(senShare, ampFactor))),
                     Whole(0), Whole(1))
        baselineDisrupt == Mul(eligibleTouchpoints, baseRate)
        barrierDisrupt == Mul(baselineDisrupt, effBarrierShare)
        prevented == Mul(barrierDisrupt, red)
        unitsAnnual == Mul(prevented, unitsPer)
        grossAnnual == Mul(prevented, benefitPer)
        totalCostH == Add(Add(startup, Mul(fixed, months)),
                          Mul(Mul(unitsAnnual, Div(months, Whole(12))), varCost))
        annualCost == annualize(totalCostH, months)
    IN  [months |-> months,
         baseline_rate_pct |-> Mul(baseRate, Whole(100)),
         barrier_share_pct |-> Mul(share, Whole(100)),
         reduction_pct |-> Mul(red, Whole(100)),
         weight_mode |-> inp.weight_mode,
         amp_factor |-> IF /\ tr.overall # Null
                           /\ tr.age6574 # Null
                           /\ Val(tr.overall) # 0
                           /\ Val(tr.age6574) # 0
                        THEN Some(Div(scalarNum(tr.age6574), scalarNum(tr.overall)))
                        ELSE Null,
         prevented_disruptions |-> prevented,
         units_annual |-> unitsAnnual,
         total_cost_horizon |-> totalCostH,
         annual_cost |-> annualCost,
         gross_annual_benefit |-> grossAnnual,
         net_annual |-> Sub(grossAnnual, annualCost)]

\* _normRate(x): NaN is 0, above 1 a percentage, else a fraction
_normRate(x) == IF isNaN(x) THEN Whole(0) ELSE IF Gt(x, Whole(1)) THEN Div(x, Whole(100)) ELSE x

RateFields == {"noshow", "share", "mitig", "over", "lmi", "aa"}

RoiFields == RateFields \cup {"visits", "netrev", "margc", "trip", "bank"}

\* roi_inputs over the ROI form fields
roi_inputs(form) ==
    [k \in RoiFields |-> IF k \in RateFields THEN _normRate(form[k].v)
                         ELSE parseOrZero(form[k])]

roi_calc(inp) ==
    LET transport_no_shows == Mul(Mul(inp.visits, inp.noshow), inp.share)
        prevented == Mul(transport_no_shows, inp.mitig)
        gross_rev == Mul(prevented, inp.netrev)
        marginal_cost == Mul(prevented, inp.margc)
        transport_cost == Mul(prevented, inp.trip)
        overhead_cost == Mul(transport_cost, inp.over)
        total_program_cost == Add(transport_cost, overhead_cost)
        lmi_trips == Mul(prevented, inp.lmi)
    IN  [transport_no_shows |-> transport_no_shows,
         prevented |-> prevented,
         gross_rev |-> gross_rev,
         marginal_cost |-> marginal_cost,
         transport_cost |-> transport_cost,
         overhead_cost |-> overhead_cost,
         total_program_cost |-> total_program_cost,
         net_benefit |-> Sub(Sub(gross_rev, marginal_cost), total_program_cost),
         be_trip_max |-> Sub(inp.netrev, inp.margc),
         trips |-> prevented,
         lmi_trips |-> lmi_trips,
         aa_trips |-> Mul(prevented, inp.aa),
         bank_per_lmi |-> IF lmi_trips = Whole(0) THEN Whole(0) ELSE Div(inp.bank, lmi_trips),
         bank_share_cost |-> IF total_program_cost = Whole(0) THEN Whole(0)
                             ELSE Div(inp.bank, total_program_cost)]

\* x >= y on numbers that are not NaN
Ge(x, y) == Gt(x, y) \/ x = y

\* coding_uplift over the coding layer's fields L
coding_uplift(L, preventedVisits, allVisits) ==
    IF ~L.toggle_coding THEN [uplift |-> Whole(0)]
    ELSE LET zRate == _normRate(L.z_rate.v)
             zUplift == parseOrZero(L.z_uplift)
             cptRate == _normRate(L.cpt_rate.v)
             cptUplift == parseOrZero(L.cpt_uplift)
             n == IF L.coding_base = "all" THEN allVisits ELSE preventedVisits
             zAdd == Mul(Mul(n, zRate), zUplift)
             cptAdd == Mul(Mul(n, cptRate), cptUplift)
         IN  [uplift |-> Add(zAdd, cptAdd)]

\* a CCM/TCM layer that computes whatever its toggle says
ccm_tcm_calcUngated(L) ==
    LET ccm_billed_months == Mul(Mul(Mul(parseOrZero(L.ccm_patients),
                                         _normRate(parseOrZero(L.ccm_enroll))),
                                     parseOrZero(L.ccm_months)),
                                 _normRate(parseOrZero(L.ccm_success)))
        tcm_episodes == Mul(Mul(parseOrZero(L.tcm_discharges),
                                _normRate(parseOrZero(L.tcm_reach))),
                            _normRate(parseOrZero(L.tcm_success)))
    IN  [ccm_net |-> Sub(Mul(ccm_billed_months, parseOrZero(L.ccm_allowed)),
                         Mul(Mul(ccm_billed_months, parseOrZero(L.ccm_minutes)),
                             parseOrZero(L.ccm_staff_rate))),
         tcm_net |-> Sub(Mul(tcm_episodes, parseOrZero(L.tcm_allow_mod)),
                         Mul(Mul(tcm_episodes, parseOrZero(L.tcm_minutes)),
                             parseOrZero(L.tcm_staff_rate))),
         enabled |-> TRUE]

\* ccm_tcm_calc over the CCM/TCM layer's fields L
ccm_tcm_calc(L) ==
    IF ~L.toggle_ccm
    THEN [ccm_net |-> Whole(0), tcm_net |-> Whole(0), enabled |-> FALSE]
    ELSE LET ccm_patients == parseOrZero(L.ccm_patients)
             ccm_enroll == _normRate(parseOrZero(L.ccm_enroll))
             ccm_months == parseOrZero(L.ccm_months)
             ccm_allowed == parseOrZero(L.ccm_allowed)
             ccm_success == _normRate(parseOrZero(L.ccm_success))
             ccm_staff_rate == parseOrZero(L.ccm_staff_rate)
             ccm_minutes == parseOrZero(L.ccm_minutes)
             ccm_enrolled == Mul(ccm_patients, ccm_enroll)
             ccm_billed_months == Mul(Mul(ccm_enrolled, ccm_months), ccm_success)
             ccm_gross == Mul(ccm_billed_months, ccm_allowed)
             ccm_labor == Mul(Mul(ccm_billed_months, ccm_minutes), ccm_staff_rate)
             tcm_discharges == parseOrZero(L.tcm_discharges)
             tcm_reach == _normRate(parseOrZero(L.tcm_reach))
             tcm_high_share == _normRate(parseOrZero(L.tcm_high_share))
             tcm_allow_mod == parseOrZero(L.tcm_allow_mod)
             tcm_allow_high == parseOrZero(L.tcm_allow_high)
             tcm_success == _normRate(parseOrZero(L.tcm_success))
             tcm_minutes == parseOrZero(L.tcm_minutes)
             tcm_staff_rate == parseOrZero(L.tcm_staff_rate)
             tcm_episodes == Mul(Mul(tcm_discharges, tcm_reach), tcm_success)
             tcm_avg_allowed == Add(Mul(tcm_high_share, tcm_allow_high),
                                    Mul(Sub(Whole(1), tcm_high_share), tcm_allow_mod))
             tcm_gross == Mul(tcm_episodes, tcm_avg_allowed)
             tcm_labor == Mul(Mul(tcm_episodes, tcm_minutes), tcm_staff_rate)
         IN  [ccm_net |-> Sub(ccm_gross, ccm_labor),
              tcm_net |-> Sub(tcm_gross, tcm_labor),
              enabled |-> TRUE]

\* vbc_calc over the value-based-care layer's fields L
vbc_calc(L) ==
    IF ~L.toggle_vbc THEN [earn |-> Whole(0), enabled |-> FALSE]
    ELSE LET at_risk == parseOrZero(L.vbc_at_risk)
             baseline == parseOrZero(L.vbc_baseline)
             projected == parseOrZero(L.vbc_projected)
         IN  IF L.vbc_type = "earnback"
             THEN LET delta == MathMax(Whole(0), Sub(projected, baseline))
                  IN  [earn |-> Mul(Div(delta, Whole(100)), at_risk), enabled |-> TRUE]
             ELSE LET threshold == parseOrZero(L.vbc_threshold)
                      bonus == parseOrZero(L.vbc_bonus)
                      clears == Ge(projected, threshold)
                      baseClears == Ge(baseline, threshold)
                  IN  [earn |-> IF clears /\ ~baseClears THEN bonus ELSE Whole(0),
                       enabled |-> TRUE]

\* the value render_roi assigns to state.model; form.layers holds the fields of
\* the three uplift layers
render_roi(form) ==
    LET inp == roi_inputs(form)
        out == roi_calc(inp)
        cu == coding_uplift(form.layers, out.prevented, inp.visits)
        totalNet == Add(out.net_benefit, cu.uplift)
        roiTotal == IF out.total_program_cost = Whole(0) THEN Whole(0)
                    ELSE Div(totalNet, out.total_program_cost)
        cct == ccm_tcm_calc(form.layers)
        vbc == vbc_calc(form.layers)
        allin == Add(Add(totalNet,
                         IF cct.enabled THEN Add(cct.ccm_net, cct.tcm_net) ELSE Whole(0)),
                     IF vbc.enabled THEN vbc.earn ELSE Whole(0))
    IN  [roi_parity |-> TRUE, inputs |-> inp, outputs |-> out, coding |-> cu,
         totalNet |-> totalNet, roiTotal |-> roiTotal, ccm_tcm |-> cct, vbc |-> vbc,
         allin |-> allin]

----------------------------------------------------------------------------
(* Specification SpecProj: runTier3 and render_roi over the form fields     *)

Tier3Forms ==
    [months : {Empty, Typed(0, 1), Typed(6, 1), Typed(12, 1)},
     annual : {Typed(10000, 1)},
     base : {Typed(20, 1), Typed(1, 5)},
     share : {Typed(10, 1)},
     red : {Typed(25, 1)},
     cov : {Empty},
     weight_mode : {"weighted", "flat"},
     sen_share : {Empty},
     benefit : {Typed(120, 1)},
     startup : {Empty, Typed(1000, 1)},
     fixed : {Typed(0, 1), Typed(100, 1)},
     var : {Typed(18, 1)},
     units : {Empty, Junk}]

\* the fields of the three uplift layers
LayerFormsWith(toggles) ==
    [toggle_coding : toggles, toggle_ccm : toggles, toggle_vbc : toggles,
     z_rate : {Typed(30, 1)},
     z_uplift : {Typed(12, 1), Junk},
     cpt_rate : {Typed(1, 10)},
     cpt_uplift : {Typed(40, 1)},
     coding_base : {"prevented", "all"},
     ccm_patients : {Typed(400, 1)},
     ccm_enroll : {Typed(25, 1)},
     ccm_months : {Typed(12, 1)},
     ccm_allowed : {Typed(62, 1)},
     ccm_success : {Typed(90, 1)},
     ccm_staff_rate : {Typed(1, 2)},
     ccm_minutes : {Typed(20, 1), Typed(200, 1)},
     tcm_discharges : {Typed(300, 1)},
     tcm_reach : {Typed(50, 1)},
     tcm_high_share : {Typed(30, 1)},
     tcm_allow_mod : {Typed(200, 1)},
     tcm_allow_high : {Typed(280, 1)},
     tcm_success : {Typed(80, 1)},
     tcm_minutes : {Typed(60, 1)},
     tcm_staff_rate : {Typed(1, 2)},
     vbc_type : {"earnback", "cliff"},
     vbc_at_risk : {Typed(100000, 1)},
     vbc_baseline : {Typed(70, 1)},
     vbc_projected : {Typed(80, 1), Typed(60, 1)},
     vbc_threshold : {Typed(75, 1)},
     vbc_bonus : {Typed(10000, 1)}]

LayerForms == LayerFormsWith(BOOLEAN)

\* all three layers off (the page as loaded)
LayersOff ==
    CHOOSE L \in LayerFormsWith({FALSE}) :
        /\ L.z_uplift = Typed(12, 1) /\ L.coding_base = "prevented"
        /\ L.ccm_minutes = Typed(20, 1)
        /\ L.vbc_type = "earnback" /\ L.vbc_projected = Typed(80, 1)

RoiFormsWith(layers) ==
    [visits : {Typed(5000, 1)},
     noshow : {Typed(20, 1), Typed(1, 5), Junk},
     share : {Typed(8, 100)},
     netrev : {Typed(150, 1)},
     margc : {Typed(30, 1)},
     mitig : {Typed(30, 1), Typed(3, 10)},
     trip : {Typed(25, 1), Typed(0, 1)},
     over : {Typed(10, 1)},
     lmi : {Typed(60, 1), Typed(0, 1)},
     aa : {Typed(80, 1)},
     bank : {Typed(50000, 1)},
     layers : layers]

RoiForms == RoiFormsWith({LayersOff})

ProjTransports ==
    {NoTransport,
     [overall |-> Some(27), age6574 |-> Some(85)],
     [overall |-> Some(0), age6574 |-> Some(85)]}

InitProj ==
    /\ transport \in ProjTransports
    /\ docs = <<>>
    /\ evidence = <<>>
    /\ findings = <<>>
    /\ opportunities = <<>>
    /\ selectedOpp = Null
    /\ chnaEval = <<>>
    /\ model = Null
    /\ errbar = [shown |-> FALSE, msg |-> <<>>]
    /\ okbar = [shown |-> FALSE, msg |-> <<>>]
    /\ runs = <<>>
    /\ last = [op |-> "init"]

Tier3Step ==
    \E form \in Tier3Forms :
        /\ model' = Some(runTier3(form, transport))
        /\ last' = [op |-> "runTier3", form |-> form]
        /\ UNCHANGED <<docs, evidence, findings, opportunities, selectedOpp, transport,
                       chnaEval, errbar, okbar, runs>>

RoiStep ==
    \E form \in RoiForms :
        /\ model' = Some(render_roi(form))
        /\ last' = [op |-> "render_roi", form |-> form]
        /\ UNCHANGED <<docs, evidence, findings, opportunities, selectedOpp, transport,
                       chnaEval, errbar, okbar, runs>>

SpecProj == InitProj /\ [][Tier3Step \/ RoiStep]_vars

----------------------------------------------------------------------------
(* C14, C15, C20: the projection chain                                      *)

\* C14: in the record runTier3 stores, annual_cost equals total_cost_horizon when
\* months is 12, and when the startup and fixed costs are 0 annual_cost is the
\* same for every months value (it equals the value computed for 12 months).
C14_AnnualizedCost ==
    last.op = "runTier3" =>
        LET m == Val(model)
            at12 == runTier3([last.form EXCEPT !.months = Typed(12, 1)], transport)
        IN  /\ m.months = Whole(12) => m.annual_cost = m.total_cost_horizon
            /\ (/\ parseOr(last.form.startup, Whole(0)) = Whole(0)
                /\ parseOr(last.form.fixed, Whole(0)) = Whole(0))
               => m.annual_cost = at12.annual_cost

Tier3Numbers(m) ==
    {m.months, m.baseline_rate_pct, m.barrier_share_pct, m.reduction_pct,
     m.prevented_disruptions, m.units_annual, m.total_cost_horizon, m.annual_cost,
     m.gross_annual_benefit, m.net_annual}

\* C15: every number the projection operations store in state.model is a finite
\* number, whatever the form fields hold (empty, not a number, zero months, zero
\* overall rate, zero program cost, zero LMI trips).
C15_DefinedResult ==
    /\ last.op = "runTier3" => \A x \in Tier3Numbers(Val(model)) : isFinite(x)
    /\ last.op = "render_roi"
           => /\ \A k \in DOMAIN Val(model).inputs : isFinite(Val(model).inputs[k])
              /\ \A k \in DOMAIN Val(model).outputs : isFinite(Val(model).outputs[k])

\* the same rate typed as a percentage (20) and as a fraction (0.2)
AsFraction(field) == IF field = Typed(20, 1) THEN Typed(1, 5) ELSE field

\* C20: a rate typed as 20 and the same rate typed as 0.2 give the same stored
\* projection, in render_roi and in runTier3.
C20_RatesNormalized ==
    /\ last.op = "render_roi"
           => Val(model).outputs
                  = render_roi([last.form EXCEPT !.noshow = AsFraction(@)]).outputs
    /\ last.op = "runTier3"
           => LET other == runTier3([last.form EXCEPT !.base = AsFraction(@)], transport)
              IN  Val(model).prevented_disruptions = other.prevented_disruptions

----------------------------------------------------------------------------
(* Specification SpecEval: evalDocForElements over one document             *)

SeqToSet(q) == {q[i] : i \in DOMAIN q}

ElementSets ==
    {c \cup i \cup w \cup k :
        c \in SUBSET SeqToSet(CHNA_ELEMENTS),
        i \in SUBSET SeqToSet(IS_ELEMENTS),
        w \in SUBSET SeqToSet(WRITTEN_COMMENT_ELEMENTS),
        k \in {{}, KindPhrases}}

\* documents of one page, and of two pages sharing out the written-comment patterns
EvalDocs ==
    {Doc("a.pdf", "pdf", <<PageWith({}, NoMatch, e)>>) : e \in ElementSets}
    \cup {Doc("b.pdf", "pdf", <<PageWith({}, NoMatch, e), PageWith({}, NoMatch, f)>>) :
              e, f \in SUBSET SeqToSet(WRITTEN_COMMENT_ELEMENTS)}

InitEval ==
    /\ \E doc \in EvalDocs : docs = <<doc>>
    /\ evidence = <<>>
    /\ findings = <<>>
    /\ opportunities = <<>>
    /\ selectedOpp = Null
    /\ transport = NoTransport
    /\ chnaEval = <<>>
    /\ model = Null
    /\ errbar = [shown |-> FALSE, msg |-> <<>>]
    /\ okbar = [shown |-> FALSE, msg |-> <<>>]
    /\ runs = <<>>
    /\ last = [op |-> "init"]

\* state.chnaEval = state.docs.map(evalDocForElements)
EvalStep ==
    /\ chnaEval = <<>>
    /\ chnaEval' = mapEval(docs)
    /\ last' = [op |-> "evalDocForElements"]
    /\ UNCHANGED <<docs, evidence, findings, opportunities, selectedOpp, transport,
                   model, errbar, okbar, runs>>

SpecEval == InitEval /\ [][EvalStep]_vars

PresentOf(block, doc) == Cardinality(SeqToSet(block) \cap foundIn(doc))

\* C16: for every evaluated document the written-comments score is 0, 33, 67 or
\* 100 exactly when 0, 1, 2 or 3 of the three written-comment elements are
\* present, and the assessment and implementation-strategy scores are the
\* percentage present/total x 100 rounded to the nearest integer.
C16_ChecklistScores ==
    \A i \in DOMAIN chnaEval :
        LET e == chnaEval[i]
            w == PresentOf(WRITTEN_COMMENT_ELEMENTS, docs[i])
            c == PresentOf(CHNA_ELEMENTS, docs[i])
            s == PresentOf(IS_ELEMENTS, docs[i])
        IN  /\ e.writtenCommentsScore \in {0, 33, 67, 100}
            /\ (e.writtenCommentsScore = 0) <=> (w = 0)
            /\ (e.writtenCommentsScore = 33) <=> (w = 1)
            /\ (e.writtenCommentsScore = 67) <=> (w = 2)
            /\ (e.writtenCommentsScore = 100) <=> (w = 3)
            /\ 2 * Abs(7 * e.chnaScore - 100 * c) <= 7
            /\ 2 * Abs(3 * e.isScore - 100 * s) <= 3
            /\ e.chnaScore \in 0..100
            /\ e.isScore \in 0..100

C16_Witness ==
    /\ last.op = "evalDocForElements"
    /\ Len(docs[1].textByPage) = 2
    /\ PresentOf(WRITTEN_COMMENT_ELEMENTS, docs[1]) = 2
    /\ chnaEval[1].writtenCommentsScore = 67

----------------------------------------------------------------------------
(* C17: the composite score                                                 *)

\* 30 x (magScore + concScore + promScore) of a finding, before rounding
Components30(f) ==
    Min2(6 * f.magnitude, 1800) + Min2(5 * f.concentration, 750)
        + Min2(75 * f.prominence, 450)

\* r is x/d rounded to the nearest integer, halves up (d > 0)
IsRounded(r, x, d) == 2 * x - d < 2 * d * r /\ 2 * d * r <= 2 * x + d

BonusApplies(f) ==
    /\ f.key = "transport"
    /\ transport.overall # Null
    /\ transport.age6574 # Null
    /\ Val(transport.overall) > 0

\* overall x clamp((age6574/overall - 1)*8, 0, 10)
BonusTimesOverall ==
    clamp(8 * (Val(transport.age6574) - Val(transport.overall)),
          0, 10 * Val(transport.overall))

\* C17 (as stated): the score of a finding is the rounded sum of its three clamped
\* components, plus, for a transportation finding with both values known and
\* overall > 0, the bonus clamp((age6574/overall - 1)*8, 0, 10), re-clamped to
\* 0..100; every other finding gets no bonus.
C17_BonusAdded ==
    last.op = "computeMateriality" =>
        \A i \in DOMAIN findings :
            LET f == findings[i]
            IN  \E base \in 0..100 :
                    /\ IsRounded(base, Components30(f), 30)
                    /\ IF BonusApplies(f)
                       THEN f.score * Val(transport.overall)
                                = clamp(base * Val(transport.overall) + BonusTimesOverall,
                                        0, 100 * Val(transport.overall))
                       ELSE f.score = base

\* C17 (amended): as above, but the bonus is rounded to the nearest integer before
\* it is added: score = clamp(round(components) + round(bonus), 0, 100); overall
\* 2.7 and age 8.5 give a bonus of 10.
C17_RoundedBonusAdded ==
    last.op = "computeMateriality" =>
        \A i \in DOMAIN findings :
            LET f == findings[i]
            IN  \E base \in 0..100 :
                    /\ IsRounded(base, Components30(f), 30)
                    /\ IF BonusApplies(f)
                       THEN \E bonus \in 0..10 :
                                /\ IsRounded(bonus, BonusTimesOverall, Val(transport.overall))
                                /\ f.score = clamp(base + bonus, 0, 100)
                                /\ (transport.overall = Some(27) /\ transport.age6574 = Some(85))
                                       => bonus = 10
                       ELSE f.score = base

\* overall 6.0 and age 8.5: the bonus 3.33 is added as 3
C17_Witness ==
    /\ last.op = "computeMateriality"
    /\ transport = [overall |-> Some(60), age6574 |-> Some(85)]
    /\ \E i \in DOMAIN findings :
           /\ BonusApplies(findings[i])
           /\ findings[i].score = baseScore(findings[i].magnitude,
                                            findings[i].concentration,
                                            findings[i].prominence) + 3

----------------------------------------------------------------------------
(* Specification SpecText: scanDoc applied to one page given as text. The   *)
(* page is a sequence of words joined by single spaces; the two searches    *)
(* are computed on character positions as the regular expressions compute   *)
(* them                                                                     *)

MaxTokens == 5

\* the words a page is made of; "filler" stands for 100 characters of other
\* words with no digit and no keyword in them
TextTokens == {"transportation", "65-74", "2.7%", "8.5%", "filler"}

TokLen(tok) ==
    CASE tok = "transportation" -> 14
      [] tok = "65-74"          -> 5
      [] tok = "filler"         -> 100
      [] OTHER                  -> 4

\* (\d{1,2}(?:\.\d+)?)% matched at the first character of a word, parseFloat'ed,
\* in tenths of a percent
PctValue(tok) ==
    CASE tok = "2.7%" -> Some(27)
      [] tok = "8.5%" -> Some(85)
      [] OTHER        -> Null

RECURSIVE StartOf(_, _)
StartOf(text, i) ==
    IF i = 1 THEN 0 ELSE StartOf(text, i - 1) + TokLen(text[i - 1]) + 1

EndOf(text, i) == StartOf(text, i) + TokLen(text[i])

\* characters between the end of word i and the start of word j
GapBetween(text, i, j) == StartOf(text, j) - EndOf(text, i)

NearWindow == 160
AgeKeywordWindow == 160
AgePercentWindow == 80

\* [\s\S]{0,window}?(\d{1,2}(?:\.\d+)?)% after word i: the lazy gap stops at the
\* nearest percentage, whatever words lie in between
percentAfter(text, i, window) ==
    LET c == {j \in (i + 1)..Len(text) :
                 PctValue(text[j]) # Null /\ GapBetween(text, i, j) <= window}
    IN  IF c = {} THEN Null ELSE Some(MinOf(c))

\* a variant that accepts only a percentage right after the keyword
findPercentNearAdjacent(text, keyword) ==
    LET hits == {i \in DOMAIN text :
                    text[i] = keyword /\ percentAfter(text, i, 1) # Null}
    IN  IF hits = {} THEN Null
        ELSE PctValue(text[Val(percentAfter(text, MinOf(hits), 1))])

\* text.match(re) returns the leftmost match: the first occurrence of the keyword
\* that has a percentage within the window
findPercentNear(text, keyword) ==
    LET hits == {i \in DOMAIN text :
                    text[i] = keyword /\ percentAfter(text, i, NearWindow) # Null}
    IN  IF hits = {} THEN Null
        ELSE PctValue(text[Val(percentAfter(text, MinOf(hits), NearWindow))])

\* the occurrences of "transportation" the greedy gap after word a can end at
ageKeywords(text, a) ==
    {k \in (a + 1)..Len(text) :
        /\ text[k] = "transportation"
        /\ GapBetween(text, a, k) <= AgeKeywordWindow
        /\ percentAfter(text, k, AgePercentWindow) # Null}

\* leftmost "65-74"; the greedy gap takes the furthest "transportation" that
\* still has a percentage within 80 characters
findAge6574Transport(text) ==
    LET hits == {a \in DOMAIN text : text[a] = "65-74" /\ ageKeywords(text, a) # {}}
    IN  IF hits = {} THEN Null
        ELSE LET k == MaxOf(ageKeywords(text, MinOf(hits)))
             IN  PctValue(text[Val(percentAfter(text, k, AgePercentWindow))])

\* what scanDoc finds on the page: keyword hits and the outcome of each search
PageFromText(text) ==
    Page(IF \E i \in DOMAIN text : text[i] = "transportation"
         THEN {"transport"} ELSE {},
         [s \in Signals |->
            CASE s = "transport" -> findPercentNear(text, "transportation")
              [] s = "age6574"   -> findAge6574Transport(text)
              [] OTHER           -> Null])

RECURSIVE TextsOfLen(_)
TextsOfLen(n) ==
    IF n = 0 THEN {<<>>}
    ELSE {Append(t, tok) : t \in TextsOfLen(n - 1), tok \in TextTokens}

Texts == UNION {TextsOfLen(n) : n \in 0..MaxTokens}

InitText ==
    /\ \E text \in Texts : last = [op |-> "text", text |-> text]
    /\ docs = <<>>
    /\ evidence = <<>>
    /\ findings = <<>>
    /\ opportunities = <<>>
    /\ selectedOpp = Null
    /\ transport = NoTransport
    /\ chnaEval = <<>>
    /\ model = Null
    /\ errbar = [shown |-> FALSE, msg |-> <<>>]
    /\ okbar = [shown |-> FALSE, msg |-> <<>>]
    /\ runs = <<>>

TextScanStep ==
    /\ last.op = "text"
    /\ LET doc == Doc("page.txt", "txt", <<PageFromText(last.text)>>)
           r == scanDoc(EmptyScan, doc)
       IN  /\ docs' = <<doc>>
           /\ findings' = r.findings
           /\ evidence' = r.evidence
           /\ transport' = r.transport
    /\ last' = [op |-> "scanDoc", text |-> last.text]
    /\ UNCHANGED <<opportunities, selectedOpp, chnaEval, model, errbar, okbar, runs>>

SpecText == InitText /\ [][TextScanStep]_vars

\* words i..j are "transportation ... 2.7%": only other words in between, and the
\* percentage within the search window of the keyword
OverallSpan(text, i, j) ==
    /\ i < j
    /\ text[i] = "transportation"
    /\ text[j] = "2.7%"
    /\ \A m \in (i + 1)..(j - 1) : text[m] = "filler"
    /\ GapBetween(text, i, j) <= NearWindow

\* words a..p are "65-74 ... transportation ... 8.5%", k the keyword
AgeSpan(text, a, k, p) ==
    /\ a < k /\ k < p
    /\ text[a] = "65-74"
    /\ text[k] = "transportation"
    /\ text[p] = "8.5%"
    /\ \A m \in ((a + 1)..(k - 1)) \cup ((k + 1)..(p - 1)) : text[m] = "filler"
    /\ GapBetween(text, a, k) <= AgeKeywordWindow
    /\ GapBetween(text, k, p) <= AgePercentWindow

\* the page consists of the two spans, one after the other in either order, with
\* nothing but other words around them
TwoSeparateSpans(text) ==
    \E i, j, a, k, p \in DOMAIN text :
        /\ OverallSpan(text, i, j)
        /\ AgeSpan(text, a, k, p)
        /\ j < a \/ p < i
        /\ \A m \in DOMAIN text : m \in (i..j) \cup (a..p) \/ text[m] = "filler"

\* C18: scanning one page that contains an overall span "transportation ... 2.7%"
\* and a separate age-band span "65-74 ... transportation ... 8.5%" and no other
\* disparity keyword leaves exactly two evidence records and exactly two findings:
\* transport/Overall with magnitude 2.7 and transport/Age 65-74 with magnitude 8.5.
C18_TwoSpansTwoFindings ==
    (last.op = "scanDoc" /\ TwoSeparateSpans(last.text)) =>
        /\ Len(evidence) = 2
        /\ Len(findings) = 2
        /\ \E x, y \in DOMAIN findings :
              /\ findings[x].id = FindingId("transport", Overall)
              /\ findings[x].magnitude = 27
              /\ findings[y].id = FindingId("transport", Age6574)
              /\ findings[y].magnitude = 85

----------------------------------------------------------------------------
(* Specification SpecExport: exportReport on the state a finished run over  *)
(* one document leaves behind. JSON text is a tree of literals; JSON.parse  *)
(* reads it back                                                            *)

MaxExportPages == 51

RecentEvidence == 100

\* JSON literals
jsonNull == [json |-> "null"]
jsonNumber(n) == [json |-> "number", lit |-> n]
jsonString(s) == [json |-> "string", lit |-> s]
jsonArray(items) == [json |-> "array", items |-> items]
jsonObject(members) == [json |-> "object", members |-> members]

\* a number or null (state.transport.overall, state.transport.age6574)
jsonNumberOrNull(x) == IF x = Null THEN jsonNull ELSE jsonNumber(Val(x))

\* variants of Array.prototype.slice with a negative start
sliceFromStart(s, n) == IF Len(s) <= n THEN s ELSE SubSeq(s, 1, n)

\* s.slice(-n): the last n elements, or all of s when it has fewer
sliceFromEnd(s, n) == IF Len(s) <= n THEN s ELSE SubSeq(s, Len(s) - n + 1, Len(s))

stringifyFinding(f) ==
    jsonObject([id            |-> jsonString(f.id),
                key           |-> jsonString(f.key),
                disparity     |-> jsonString(f.disparity),
                segment       |-> jsonString(f.segment),
                magnitude     |-> jsonNumber(f.magnitude),
                prominence    |-> jsonNumber(f.prominence),
                concentration |-> jsonNumber(f.concentration),
                score         |-> jsonNumber(f.score),
                recommend     |-> jsonString(f.recommend),
                evidenceRef   |-> jsonString(f.evidenceRef)])

stringifyOpportunity(o) ==
    jsonObject([opp      |-> jsonString(o.opp),
                kind     |-> jsonString(o.kind),
                strength |-> jsonString(o.strength),
                score    |-> jsonNumber(o.score)])

stringifyEvidence(e) ==
    jsonObject([disparity |-> jsonString(e.disparity),
                snippet   |-> jsonString(e.snippet),
                doc       |-> jsonString(e.doc),
                page      |-> jsonNumber(e.page)])

\* d => ({name:d.name, pages:d.pages, type:d.type})
stringifyDocSummary(d) ==
    jsonObject([name  |-> jsonString(d.name),
                pages |-> jsonNumber(d.pages),
                type  |-> jsonString(d.type)])

stringifyTransport(tr) ==
    jsonObject([overall |-> jsonNumberOrNull(tr.overall),
                age6574 |-> jsonNumberOrNull(tr.age6574)])

\* JSON.stringify(report) of exportReport
reportOf(generated_at, ds, tr, fs, opps, ev) ==
    jsonObject([
        generated_at        |-> jsonString(generated_at),
        docs                |-> jsonArray([i \in DOMAIN ds |-> stringifyDocSummary(ds[i])]),
        transport           |-> stringifyTransport(tr),
        tier1_findings      |-> jsonArray([i \in DOMAIN fs |-> stringifyFinding(fs[i])]),
        tier2_opportunities |-> jsonArray([i \in DOMAIN opps |->
                                               stringifyOpportunity(opps[i])]),
        evidence            |-> LET recent == sliceFromEnd(ev, RecentEvidence)
                                IN  jsonArray([i \in DOMAIN recent |->
                                                   stringifyEvidence(recent[i])])])

\* JSON.parse: literals back to values
RECURSIVE parse(_)
parse(j) ==
    CASE j.json = "null"   -> Null
      [] j.json = "number" -> j.lit
      [] j.json = "string" -> j.lit
      [] j.json = "array"  -> [i \in DOMAIN j.items |-> parse(j.items[i])]
      [] j.json = "object" -> [k \in DOMAIN j.members |-> parse(j.members[k])]

\* new Date().toISOString() at the time of the click
Timestamps == {"2025-01-01T00:00:00.000Z", "2025-01-02T00:00:00.000Z"}

ExportDocs ==
    {<<>>} \cup {<<Doc("big.pdf", "pdf", [i \in 1..n |-> page])>> :
                    n \in 1..MaxExportPages, page \in ScanPages}

\* the state after construction, or after a run over one parsed document
InitExport ==
    \E ds \in ExportDocs :
        LET r == scanDocs(EmptyScan, ds, 1)
            fs == computeMateriality(r.findings, r.transport)
            opps == IF ds = <<>> THEN <<>> ELSE buildOpportunities(fs)
        IN  /\ docs = ds
            /\ evidence = r.evidence
            /\ transport = r.transport
            /\ chnaEval = mapEval(ds)
            /\ findings = fs
            /\ opportunities = opps
            /\ selectedOpp = topOpp(opps)
            /\ model = Null
            /\ errbar = IF ds = <<>> THEN [shown |-> FALSE, msg |-> <<>>]
                        ELSE noSignalsCheck(r.evidence, clearErr)
            /\ okbar = IF ds = <<>> THEN [shown |-> FALSE, msg |-> <<>>]
                       ELSE showOk(<<"Processed", Len(ds), Len(r.evidence)>>)
            /\ runs = <<>>
            /\ last = IF ds = <<>> THEN [op |-> "init"]
                      ELSE [op |-> "process", phase |-> "resume", outcome |-> "done"]

\* btn_export click; the downloaded text is kept in last.report
ExportReport ==
    \E generated_at \in Timestamps :
        /\ last.op # "exportReport"
        /\ last' = [op |-> "exportReport",
                    report |-> reportOf(generated_at, docs, transport, findings,
                                        opportunities, evidence)]
        /\ UNCHANGED <<docs, evidence, findings, opportunities, selectedOpp, transport,
                       chnaEval, model, errbar, okbar, runs>>

SpecExport == InitExport /\ [][ExportReport]_vars

\* the literal j reads back as the number-or-null x
ReadsBackAs(j, x) ==
    IF x = Null THEN j.json = "null" ELSE j.json = "number" /\ parse(j) = Val(x)

----------------------------------------------------------------------------
(* addFinding and scanDoc, continued *)

\* the stored finding of identity id, or Null
findingOf(fs, id) ==
    LET hit == {i \in DOMAIN fs : fs[i].id = id}
    IN  IF hit = {} THEN Null ELSE Some(fs[MinOf(hit)])

\* C21: the prominence stored for an identity is the running maximum of the
\* prominence arguments of the addFinding calls for it: each call leaves
\* max(stored prominence, prominence argument), also when its magnitude is not
\* strictly greater than the stored one.
C21_ProminenceRunningMax ==
    [][last'.op = "addFinding" =>
          LET before == findingOf(findings, last'.id)
              after == findingOf(findings', last'.id)
          IN  /\ after # Null
              /\ Val(after).prominence =
                     IF before = Null THEN last'.prominence
                     ELSE Max2(Val(before).prominence, last'.prominence)]_vars

\* the pages <<document, page>> of ds on which the search s matches
matchingPages(ds, s) ==
    {x \in UNION {{i} \X DOMAIN ds[i].textByPage : i \in DOMAIN ds} :
        ds[x[1]].textByPage[x[2]].pct[s] # Null}

\* the value of the last match of s in scan order (documents in order, pages in
\* order), or Null when no page matches
latestMatch(ds, s) ==
    LET m == matchingPages(ds, s)
    IN  IF m = {} THEN Null
        ELSE LET x == CHOOSE y \in m :
                         \A z \in m : z[1] < y[1] \/ (z[1] = y[1] /\ z[2] <= y[2])
             IN  ds[x[1]].textByPage[x[2]].pct[s]

\* C22: after the scan of the run's documents each transportation scalar holds the
\* value of the latest match of its pattern in scan order: every new match
\* overwrites the previous value.
C22_ScalarsHoldLatest ==
    /\ transport.overall = latestMatch(docs, "transport")
    /\ transport.age6574 = latestMatch(docs, "age6574")

----------------------------------------------------------------------------
(* Specification SpecSynth: computeMateriality and buildOpportunities, the   *)
(* tail of a run, applied to the findings and scalars a scan can leave      *)

SynthMaxProm == 6

SynthMags == {0, 85, 999}
SynthProms == {1, SynthMaxProm}

SynthScalarsFor(f) ==
    IF f = Null THEN {Null} ELSE {Some(v) : v \in {w \in SynthMags : w <= Val(f).m}}

InitSynth ==
    \E o \in ScanOutcomes(SynthMags, SynthProms),
       a \in ScanOutcomes(SynthMags, SynthProms),
       fd \in ScanOutcomes({85, 999}, SynthProms),
       ac \in ScanOutcomes({300}, {1}),
       ho \in ScanOutcomes({300}, {1}) :
        /\ (a # Null => o # Null)
        /\ \E so \in SynthScalarsFor(o), sa \in SynthScalarsFor(a) :
              transport = [overall |-> so, age6574 |-> sa]
        /\ findings = withOutcome(withOutcome(withOutcome(withOutcome(withOutcome(<<>>,
                          "transport", Overall, o), "transport", Age6574, a),
                          "access", Overall, ac), "food", Overall, fd),
                          "housing", Overall, ho)
        /\ docs = <<>>
        /\ evidence = <<>>
        /\ opportunities = <<>>
        /\ selectedOpp = Null
        /\ chnaEval = <<>>
        /\ model = Null
        /\ errbar = [shown |-> FALSE, msg |-> <<>>]
        /\ okbar = [shown |-> FALSE, msg |-> <<>>]
        /\ runs = <<>>
        /\ last = [op |-> "scanDoc"]

\* computeMateriality(); buildOpportunities(); of btn_process and btn_demo
SynthStep ==
    /\ last.op = "scanDoc"
    /\ LET fs == computeMateriality(findings, transport)
           opps == buildOpportunities(fs)
       IN  /\ findings' = fs
           /\ opportunities' = opps
           /\ selectedOpp' = topOpp(opps)
    /\ last' = [op |-> "buildOpportunities"]
    /\ UNCHANGED <<docs, evidence, transport, chnaEval, model, errbar, okbar, runs>>

SpecSynth == InitSynth /\ [][SynthStep]_vars

\* the scores of the findings of a key
scoresOfKey(fs, key) == {fs[i].score : i \in {j \in DOMAIN fs : fs[j].key = key}}

oppsOfKind(kind) == {i \in DOMAIN opportunities : opportunities[i].kind = kind}

\* C23: every opportunity's strength is a function of its score (Strong iff
\* score >= 75, Moderate iff 60 <= score < 75, Weak iff score < 60), and the tier
\* gate is unlocked exactly when some opportunity is Strong or Moderate.
C23_StrengthFollowsScore ==
    last.op = "buildOpportunities" =>
        /\ \A i \in DOMAIN opportunities :
              LET o == opportunities[i]
              IN  /\ o.strength \in {"Strong", "Moderate", "Weak"}
                  /\ o.strength = "Strong" <=> o.score >= 75
                  /\ o.strength = "Moderate" <=> (60 <= o.score /\ o.score < 75)
                  /\ o.strength = "Weak" <=> o.score < 60
        /\ tier3Unlocked <=> \E i \in DOMAIN opportunities :
                                 opportunities[i].strength \in {"Strong", "Moderate"}

\* a synthesis that left a Strong, a Moderate and a Weak opportunity
C23_Witness ==
    /\ last.op = "buildOpportunities"
    /\ \A t \in {"Strong", "Moderate", "Weak"} :
          \E i \in DOMAIN opportunities : opportunities[i].strength = t
    /\ \E i \in DOMAIN opportunities : opportunities[i].score \in 55..59

\* C24: the responsiveness of each opportunity is the maximum score among the
\* findings of its category (55 for transportation when it has no finding), and
\* its score is round(0.30*eligibility + 0.30*responsiveness + 0.25*70
\* + 0.15*(100 - burden)) with eligibility/burden 90/35 for transportation,
\* 80/45 for food and 75/50 for access to care.
C24_BestFindingScored ==
    last.op = "buildOpportunities" =>
        \A i \in DOMAIN opportunities :
            LET o == opportunities[i]
                key == CASE o.kind = "nmt" -> "transport"
                         [] o.kind = "food" -> "food"
                         [] o.kind = "care" -> "access"
                e == CASE o.kind = "nmt" -> 90 [] o.kind = "food" -> 80
                       [] o.kind = "care" -> 75
                b == CASE o.kind = "nmt" -> 35 [] o.kind = "food" -> 45
                       [] o.kind = "care" -> 50
                sc == scoresOfKey(findings, key)
                r == IF sc = {} THEN 55 ELSE MaxOf(sc)
            IN  /\ o.kind \in {"nmt", "food", "care"}
                /\ (sc = {} => o.kind = "nmt")
                /\ IsRounded(o.score, 30 * e + 30 * r + 25 * 70 + 15 * (100 - b), 100)

\* two transportation findings with different scores, a food finding and an access
\* finding stand behind the three opportunities
C24_Witness ==
    /\ last.op = "buildOpportunities"
    /\ Cardinality(scoresOfKey(findings, "transport")) = 2
    /\ Len(opportunities) = 3
    /\ \E i \in oppsOfKind("nmt") :
          opportunities[i].score =
              scoreOpportunity(90, MaxOf(scoresOfKey(findings, "transport")), 70, 35)

\* C25: after synthesis the list holds the transportation opportunity
\* unconditionally, a food opportunity iff a food finding exists, an
\* access-to-care opportunity iff an access finding exists, and nothing else: at
\* most one per kind, 1 to 3 in total; housing and financial findings create none.
C25_OpportunityKinds ==
    last.op = "buildOpportunities" =>
        /\ Cardinality(oppsOfKind("nmt")) = 1
        /\ Cardinality(oppsOfKind("food")) =
               IF scoresOfKey(findings, "food") # {} THEN 1 ELSE 0
        /\ Cardinality(oppsOfKind("care")) =
               IF scoresOfKey(findings, "access") # {} THEN 1 ELSE 0
        /\ \A i \in DOMAIN opportunities :
              opportunities[i].kind \in {"nmt", "food", "care"}
        /\ Len(opportunities) \in 1..3

\* a housing finding and a food finding exist, no access finding: two opportunities
C25_Witness ==
    /\ last.op = "buildOpportunities"
    /\ scoresOfKey(findings, "housing") # {}
    /\ scoresOfKey(findings, "food") # {}
    /\ scoresOfKey(findings, "access") = {}
    /\ Len(opportunities) = 2

\* C30: after a completed run that left no transportation finding (also one that
\* left no finding at all) the transportation opportunity is built from the
\* default responsiveness 55: score 71, strength Moderate, and the gate is unlocked.
C30_DefaultTransportOpportunity ==
    (last.op = "buildOpportunities" /\ scoresOfKey(findings, "transport") = {}) =>
        /\ \E i \in oppsOfKind("nmt") :
              /\ opportunities[i].score = 71
              /\ opportunities[i].strength = "Moderate"
              /\ IsRounded(71, 30 * 90 + 30 * 55 + 25 * 70 + 15 * (100 - 35), 100)
        /\ Cardinality(oppsOfKind("nmt")) = 1
        /\ tier3Unlocked

\* a run that left no finding at all
C30_Witness ==
    /\ last.op = "buildOpportunities"
    /\ findings = <<>>
    /\ Len(opportunities) = 1
    /\ opportunities[1].score = 71

----------------------------------------------------------------------------
(* Specification SpecRoi: render_roi over the ROI form with its three       *)
(* uplift layers                                                            *)

RoiStepOnce ==
    \E form \in RoiFormsWith(LayerForms) :
        /\ model = Null
        /\ model' = Some(render_roi(form))
        /\ last' = [op |-> "render_roi", form |-> form]
        /\ UNCHANGED <<docs, evidence, findings, opportunities, selectedOpp, transport,
                       chnaEval, errbar, okbar, runs>>

SpecRoi == InitProj /\ [][RoiStepOnce]_vars

\* what a layer adds to the all-in value
layerContribution(on, value) == IF on THEN value ELSE Whole(0)

\* C26: in the ROI-parity model each uplift layer (coding capture, CCM/TCM,
\* value-based-care earn-back) contributes exactly zero to the all-in value when
\* its toggle is off, whatever the other toggles and the layer's fields hold, and
\* the all-in value is the base net benefit plus the contributions of the
\* enabled layers.
C26_LayersGated ==
    last.op = "render_roi" =>
        LET m == Val(model)
            L == last.form.layers
            on == [L EXCEPT !.toggle_coding = TRUE, !.toggle_ccm = TRUE,
                            !.toggle_vbc = TRUE]
            full == render_roi([last.form EXCEPT !.layers = on])
        IN  /\ ~L.toggle_coding => m.coding.uplift = Whole(0)
            /\ ~L.toggle_ccm => m.ccm_tcm.ccm_net = Whole(0) /\ m.ccm_tcm.tcm_net = Whole(0)
            /\ ~L.toggle_vbc => m.vbc.earn = Whole(0)
            /\ m.allin =
                 Add(m.outputs.net_benefit,
                     Add(layerContribution(L.toggle_coding, full.coding.uplift),
                         Add(layerContribution(L.toggle_ccm,
                                 Add(full.ccm_tcm.ccm_net, full.ccm_tcm.tcm_net)),
                             layerContribution(L.toggle_vbc, full.vbc.earn))))

\* coding and earn-back on, CCM/TCM off although its fields would give a
\* contribution: the all-in value is above the base net benefit and holds no
\* CCM/TCM amount
C26_Witness ==
    /\ last.op = "render_roi"
    /\ last.form.layers.toggle_coding
    /\ ~last.form.layers.toggle_ccm
    /\ last.form.layers.toggle_vbc
    /\ ccm_tcm_calcUngated(last.form.layers).ccm_net # Whole(0)
    /\ Gt(Val(model).vbc.earn, Whole(0))
    /\ Gt(Val(model).coding.uplift, Whole(0))
    /\ Val(model).allin = Add(Add(Val(model).outputs.net_benefit,
                                  Val(model).coding.uplift), Val(model).vbc.earn)

----------------------------------------------------------------------------
(* The evidence list as an audit trail *)

\* the number of successful searches on the pages of a document
matchCount(doc) ==
    Cardinality({x \in (DOMAIN doc.textByPage) \X Signals :
                    doc.textByPage[x[1]].pct[x[2]] # Null})

IsPrefix(p, q) == Len(p) <= Len(q) /\ SubSeq(q, 1, Len(p)) = p

\* the finding's evidenceRef names the document and page of an evidence record
\* with the finding's disparity label
Traceable(f, ev) ==
    \E k \in DOMAIN ev :
        /\ ev[k].doc = f.evidenceRef[1]
        /\ ev[k].page = f.evidenceRef[2]
        /\ ev[k].disparity = f.disparity

\* C27: within a run state.evidence only grows and its records never change,
\* every successful numeric match of a scanned document adds exactly one record,
\* the findings are never more than the evidence records, and every finding's
\* evidenceRef names the document and page of an evidence record carrying the
\* finding's disparity label.
C27_EvidenceAuditTrail ==
    [][/\ IsPrefix(evidence, evidence')
       /\ last'.op = "scanDoc" =>
              Len(evidence') = Len(evidence) + matchCount(docs'[Len(docs')])
       /\ Len(findings') <= Len(evidence')
       /\ \A i \in DOMAIN findings' : Traceable(findings'[i], evidence')]_vars

\* a second document was scanned: its matches were appended after the first
\* document's records and a finding now refers to the second document
C27_Witness ==
    /\ Len(docs) = 2
    /\ docs[1].name # docs[2].name
    /\ matchCount(docs[1]) > 0
    /\ Len(evidence) > matchCount(docs[1])
    /\ evidence[1].doc = docs[1].name
    /\ \E i \in DOMAIN findings : findings[i].evidenceRef[1] = docs[2].name
    /\ Len(findings) < Len(evidence)

----------------------------------------------------------------------------
(* Specification SpecDraft: generateDraft after runTier3 and render_roi in  *)
(* any order                                                                *)

DraftTypes == {"cra_memo", "exam_narrative", "crosswalk", "term_sheet", "chna_brief",
               "monitor_plan", "pnl", "none"}

\* the outcome of a call: a draft text (named by its kind) or an exception
Returned(text) == [completed |-> TRUE, text |-> text]
Thrown(error) == [completed |-> FALSE, error |-> error]

\* generateDraft(draftType, oppKind, tone) by what it reads of state.model: the
\* model block is built first, for every draft type, and calls toFixed on
\* baseline_rate_pct, barrier_share_pct and reduction_pct
generateDraft(draftType, m) ==
    IF m # Null /\ ~({"baseline_rate_pct", "barrier_share_pct", "reduction_pct"}
                         \subseteq DOMAIN Val(m))
    THEN Thrown("TypeError")
    ELSE IF draftType = "pnl"
         THEN IF m = Null \/ "outputs" \notin DOMAIN Val(m)
              THEN Returned("P&L Draft unavailable: Run Tier 3 ROI first.")
              ELSE Returned("pnl")
         ELSE IF draftType = "none" THEN Returned("No draft type selected.")
         ELSE Returned(draftType)

DraftTier3Forms ==
    {f \in Tier3Forms : /\ f.base = Typed(20, 1) /\ f.startup = Empty
                        /\ f.fixed = Typed(0, 1) /\ f.units = Empty
                        /\ f.months \in {Empty, Typed(6, 1)}}

DraftRoiForms ==
    {f \in RoiForms : /\ f.noshow = Typed(20, 1) /\ f.mitig = Typed(30, 1)
                      /\ f.lmi = Typed(60, 1)}

DraftTier3Step ==
    \E form \in DraftTier3Forms :
        /\ model' = Some(runTier3(form, transport))
        /\ last' = [op |-> "runTier3", form |-> form]
        /\ UNCHANGED <<docs, evidence, findings, opportunities, selectedOpp, transport,
                       chnaEval, errbar, okbar, runs>>

DraftRoiStep ==
    \E form \in DraftRoiForms :
        /\ model' = Some(render_roi(form))
        /\ last' = [op |-> "render_roi", form |-> form]
        /\ UNCHANGED <<docs, evidence, findings, opportunities, selectedOpp, transport,
                       chnaEval, errbar, okbar, runs>>

\* btn_generate_draft click; the outcome is kept in last.result
GenerateDraft ==
    \E draftType \in DraftTypes :
        /\ last' = [op |-> "generateDraft", draftType |-> draftType,
                    result |-> generateDraft(draftType, model)]
        /\ UNCHANGED <<docs, evidence, findings, opportunities, selectedOpp, transport,
                       chnaEval, model, errbar, okbar, runs>>

SpecDraft == InitProj /\ [][DraftTier3Step \/ DraftRoiStep \/ GenerateDraft]_vars

\* C28: after any sequence of runTier3 and render_roi, generateDraft completes
\* and returns a draft text for every draft type: state.model always carries the
\* fields generateDraft reads, whichever of the two wrote it last.
C28_DraftAlwaysReturned ==
    last.op = "generateDraft" => last.result.completed

----------------------------------------------------------------------------
(* The two transportation searches on the same page *)

\* C29: every page that matches the age-banded transportation pattern also
\* matches the overall transportation pattern, so a transport/Age 65-74 finding
\* exists only if a transport/Overall finding exists, and state.transport.age6574
\* is non-null only if state.transport.overall is non-null.
C29_AgeMatchImpliesOverall ==
    /\ findAge6574Transport(last.text) # Null
           => PageFromText(last.text).pct["transport"] # Null
    /\ findingOf(findings, FindingId("transport", Age6574)) # Null
           => findingOf(findings, FindingId("transport", Overall)) # Null
    /\ transport.age6574 # Null => transport.overall # Null

\* a scanned page on which the age-band search matched with a word between the
\* keyword and the percentage
C29_Witness ==
    /\ last.op = "scanDoc"
    /\ transport.age6574 # Null
    /\ findingOf(findings, FindingId("transport", Age6574)) # Null
    /\ \E i \in DOMAIN last.text :
          /\ last.text[i] = "transportation"
          /\ i + 2 <= Len(last.text)
          /\ PctValue(last.text[i + 1]) = Null
          /\ PctValue(last.text[i + 2]) # Null

====
